---- MODULE Spec2Model ----
(***************************************************************************)
(* Model of helldiver.  Three specifications over one set of variables:    *)
(*   Spec       src/graph/client.py: retry_with_backoff, GraphClient       *)
(*   MainSpec   src/main.py: main() and the phases of the interactive loop *)
(*   CycleSpec  src/core/, src/workers/research.py, src/utils/files.py:    *)
(*              ResearchSession and run_research_cycle                     *)
(* The episode-commit protocol (Spec):                                     *)
(* One GraphClient object, the commit calls made on it one after another,  *)
(* and the graph backend (Graphiti / Neo4j) as a nondeterministic          *)
(* collaborator: handle construction, liveness check, index build and      *)
(* add_episode may each succeed or raise.                                  *)
(***************************************************************************)
EXTENDS Integers, Sequences, FiniteSets, TLC

(* ------------------------------ bounds --------------------------------- *)

\* number of commit_research_episode calls made on the client
MaxCalls == 2

\* number of Graphiti handles the backend lets the process construct
MaxHandles == 2

(* ------------------------- program constants --------------------------- *)

\* retry_with_backoff(func, max_retries=3, initial_delay=60)
max_retries_four == 3 + 1

max_retries == 3

initial_delay == 60

\* self.graphiti = None
None == 0

\* worker_names: the declared workers, in the order of the dict literal
worker_names_tool_first ==
    << [key |-> "tool_analyzer",         label |-> "Tool Analysis"],
       [key |-> "academic_researcher",   label |-> "Academic Research"],
       [key |-> "industry_intelligence", label |-> "Industry Intelligence"] >>

worker_names ==
    << [key |-> "academic_researcher",   label |-> "Academic Research"],
       [key |-> "industry_intelligence", label |-> "Industry Intelligence"],
       [key |-> "tool_analyzer",         label |-> "Tool Analysis"] >>

CriticalLabel == "Critical Analysis"

RefinementLabel == "Refinement Context"

\* group_id = "helldiver_research" (run_research_cycle, the only caller)
GroupId == "helldiver_research"

(* ------------------------------ inputs --------------------------------- *)

\* artifact texts: the empty string and a non-empty text
Texts == {"", "findings"}

\* keys a worker_results dict may hold: the declared ones and another role
DeclaredKeys == {worker_names[i].key : i \in 1..Len(worker_names)}

WorkerKeys == DeclaredKeys \cup {"synthesizer"}

\* the worker_results dicts a call is given: every dict over the declared keys,
\* every dict that lacks some of them, and dicts that hold another role
WorkerResultSets ==
    [DeclaredKeys -> Texts]
      \cup UNION {[K -> {"findings"}] : K \in SUBSET DeclaredKeys}
      \cup {[k \in WorkerKeys |-> IF k \in DeclaredKeys THEN t ELSE "findings"] : t \in Texts}

EpisodeNames == {"Graph memory"}

SessionNames == {"Brain memory for LLMs"}

\* str(e).lower() of the exceptions add_episode raises: the rate-limit error
\* of the LLM API behind Graphiti, and an error that is not of that class
RateLimitError == "error code: 429 - rate limit reached"

MalformedError == "malformed payload"

WriteExceptions == {RateLimitError, MalformedError}

\* raised by attribute access on None (self.graphiti is None)
AttributeError == "'NoneType' object has no attribute"

BuildError == "index build failed"

(* --------------------------- pure functions ---------------------------- *)

\* worker_results.get(worker_key, "")
DictGetDefault(d, k, default) == default

DictGet(d, k, default) == IF k \in DOMAIN d THEN d[k] ELSE default

\* `if not content: continue`, `if critical_analysis:`: truthiness of a str
TruthyAlways(text) == TRUE

Truthy(text) == text # ""

\* "rate limit" in error_msg or "429" in error_msg   (error_msg lower-cased)
HasRateLimitText(e) == e \in {RateLimitError}

Has429Text(e) == e \in {RateLimitError}

IsRateLimitAlwaysTrue(e) == TRUE

IsRateLimit(e) == HasRateLimitText(e) \/ Has429Text(e)

\* `for attempt in range(max_retries + 1):`
InRange(a) == a < max_retries + 1

\* `if attempt < max_retries:` sleep and go round again, else raise
MayRetry(a) == a < max_retries

EpNameWithoutRole(episode_name, label) == <<episode_name, "">>

\* f"{episode_name} - {worker_label}"
EpName(episode_name, label) == <<episode_name, label>>

\* f"Failed to commit {ep_name}: {str(e)}"
ErrorMsgWithoutRole(ep_name, e) == [failed |-> <<ep_name[1], "">>, exc |-> e]

ErrorMsg(ep_name, e) == [failed |-> ep_name, exc |-> e]

\* context_body of the refinement episode wraps the distilled text
ContextBody(episode_name, refinement_distilled) ==
    <<"Research Query", episode_name, "DISTILLED CONTEXT", refinement_distilled>>

\* "success" if episodes_committed else "error"
Status(episodes) == IF Len(episodes) > 0 THEN "success" ELSE "error"

\* the dict returned when _ensure_connection() is False
UnavailableResult ==
    [status |-> "error", error |-> "Neo4j unavailable", episode_count |-> 0]

CommitResultCountsErrors(episodes, errs) ==
    [status |-> Status(episodes), episode_count |-> Len(episodes) + Len(errs),
     episodes |-> episodes, errors |-> errs]

\* the dict returned after the write phase
CommitResult(episodes, errs) ==
    [status |-> Status(episodes), episode_count |-> Len(episodes),
     episodes |-> episodes, errors |-> errs]

NoResult == [status |-> "none"]

(* ------------------------------- state --------------------------------- *)

VARIABLES
    graphiti,           \* self.graphiti: None or the id of the current handle
    indexes_built,      \* self._indexes_built
    handles_created,    \* handles the backend has constructed so far
    calls,              \* commit_research_episode calls started so far
    pc,                 \* position of the running call
    args,               \* arguments of the running (or last) call
    timestamp,          \* timestamp = datetime.now(timezone.utc) of the call
    worker_idx,         \* position of `for ... in worker_names.items()`
    cur,                \* the artifact whose write is in progress
    attempt,            \* retry_with_backoff: attempt
    delay,              \* retry_with_backoff: delay
    last_exception,     \* retry_with_backoff: last_exception
    episodes_committed, \* episodes_committed
    errors,             \* errors
    result,             \* the dict the call returned
    raised,             \* the exception that left the call, if one did
    cycle_result,       \* the dict run_research_cycle returned to its caller
    flag_before,        \* self._indexes_built when the call was made
    handle_before,      \* self.graphiti when the call was made
    outage,             \* no liveness check has passed so far
    outcomes,           \* how func() finally ended for each artifact written
    conn,               \* what _ensure_connection found in this call
    attempted,          \* labels whose write was started, in order
    issued,             \* add_episode requests sent to the backend (one per artifact)
    invocations,        \* func() invocations made for the current artifact
    sleeps,             \* asyncio.sleep delays of the current artifact's write
    last_build,         \* the latest build_indices_and_constraints invocation
    thrown,             \* what the latest func() invocation raised ("none": it returned)
    \* main.py: the interactive loop and its session
    main_pc,            \* position of the process: a phase or a blocking input()
    state,              \* session.state ("none" while session is None)
    session_dir,        \* session.session_dir is set (initialize_filesystem ran)
    refinement_log,     \* len(session.refinement_log)
    session_json,       \* "state" held by session.json of the session directory
    refinement_json,    \* turns held by refinement_context.json
    unsaved,            \* a state assigned to session.state and not yet written
    \* core/: one ResearchSession, its session.json, and run_research_cycle
    session,            \* the ResearchSession object (NoSession before one exists)
    session_file,       \* session.json: missing, corrupt, or the dict it holds
    load_error,         \* the exception the latest ResearchSession.load raised
    saved,              \* the object as it was when save() last wrote the file
    fresh_load,         \* session is what load() returned, untouched since
    cycle_pc,           \* position of the running run_research_cycle
    batch_status,       \* processing_status of the worker batch
    polls,              \* time.sleep(10) rounds of the polling loop
    generated,          \* what each worker request of the batch produced
    worker_results,     \* worker_results
    critical_analysis,  \* critical_analysis
    conversation_for_distillation,
    refinement_distilled,
    distill_calls,      \* distill_conversation calls of the running cycle
    commit_call,        \* arguments of the cycle's commit_research_episode call
    commit_result,      \* what that call returned
    steps,              \* the steps the running cycle has completed, in order
    distilled_in,       \* per pending turn: distilled conversations it was part of
    cycle_return        \* what run_research_cycle has just returned

client_vars == <<graphiti, indexes_built, handles_created>>

frame_vars == <<args, timestamp, worker_idx, cur, attempt, delay, last_exception,
                episodes_committed, errors, result, raised, cycle_result>>

ghost_vars == <<flag_before, handle_before, outage, outcomes, conn, attempted,
                issued, invocations, sleeps, last_build, thrown>>

main_vars == <<main_pc, state, session_dir, refinement_log, session_json,
               refinement_json, unsaved>>

commit_vars == <<client_vars, calls, pc, frame_vars, ghost_vars>>

store_vars == <<session, session_file, load_error, saved, fresh_load>>

research_vars == <<batch_status, polls, generated, worker_results,
                   critical_analysis>>

distill_vars == <<conversation_for_distillation, refinement_distilled,
                  distill_calls>>

call_vars == <<research_vars, distill_vars, commit_call, commit_result, steps>>

cycle_vars == <<store_vars, cycle_pc, call_vars, distilled_in, cycle_return>>

vars == <<commit_vars, main_vars, cycle_vars>>

NoBuild == [handle |-> None, call |-> 0, nth |-> 0, ok |-> FALSE]

NoArtifact == [stage |-> "none", label |-> "", body |-> ""]

NoArgs == [session_name |-> "", episode_name |-> "", group_id |-> "",
           worker_results |-> [k \in {} |-> ""], critical_analysis |-> "",
           refinement_distilled |-> ""]

\* GraphClient.__init__: the handle is built, or the client falls back to None;
\* no call is running
ClientInit ==
    /\ graphiti \in {None, 1}
    /\ indexes_built = FALSE
    /\ handles_created = (IF graphiti = None THEN 0 ELSE 1)
    /\ calls = 0
    /\ pc = "idle"
    /\ args = NoArgs
    /\ timestamp = 0
    /\ worker_idx = 1
    /\ cur = NoArtifact
    /\ attempt = 0
    /\ delay = initial_delay
    /\ last_exception = "none"
    /\ episodes_committed = <<>>
    /\ errors = <<>>
    /\ result = NoResult
    /\ raised = "none"
    /\ cycle_result = NoResult
    /\ flag_before = FALSE
    /\ handle_before = None
    /\ outage = TRUE
    /\ outcomes = <<>>
    /\ conn = "none"
    /\ attempted = <<>>
    /\ issued = <<>>
    /\ invocations = 0
    /\ sleeps = <<>>
    /\ last_build = NoBuild
    /\ thrown = "none"

\* main.py is not running
MainIdle ==
    /\ main_pc = "start"
    /\ state = "none"
    /\ session_dir = FALSE
    /\ refinement_log = 0
    /\ session_json = "missing"
    /\ refinement_json = 0
    /\ unsaved = "none"

\* an empty dict
EmptyDict == [k \in {} |-> ""]

NoSession == [query |-> "none"]

\* session.json: absent, not parseable, or holding a dict
MissingFile == [content |-> "missing", data |-> EmptyDict]

CorruptFile == [content |-> "corrupt", data |-> EmptyDict]

FileHolding(data) == [content |-> "json", data |-> data]

\* no ResearchSession exists and no research cycle is running
CycleIdle ==
    /\ session = NoSession
    /\ session_file = MissingFile
    /\ load_error = "none"
    /\ saved = NoSession
    /\ fresh_load = FALSE
    /\ cycle_pc = "idle"
    /\ batch_status = "none"
    /\ polls = 0
    /\ generated = EmptyDict
    /\ worker_results = EmptyDict
    /\ critical_analysis = ""
    /\ conversation_for_distillation = <<>>
    /\ refinement_distilled = ""
    /\ distill_calls = 0
    /\ commit_call = NoArgs
    /\ commit_result = NoResult
    /\ steps = <<>>
    /\ distilled_in = <<>>
    /\ cycle_return = NoResult

Init == ClientInit /\ MainIdle /\ CycleIdle

\* run_research_cycle is not running: not started yet, returned, or left by
\* the exception of its commit call
Resting == pc \in {"idle", "cycle_done", "raised"}

(* ------------------------------ the call ------------------------------- *)

\* run_research_cycle invokes commit_research_episode(...) on the client
CommitCall ==
    /\ UNCHANGED <<main_vars, cycle_vars>>
    /\ Resting
    /\ calls < MaxCalls
    /\ \E s \in SessionNames, n \in EpisodeNames, w \in WorkerResultSets,
          c \in Texts, r \in Texts :
          args' = [session_name |-> s, episode_name |-> n, group_id |-> GroupId,
                   worker_results |-> w, critical_analysis |-> c,
                   refinement_distilled |-> r]
    /\ calls' = calls + 1
    /\ pc' = "ensure"
    /\ timestamp' = 0
    /\ worker_idx' = 1
    /\ cur' = NoArtifact
    /\ attempt' = 0
    /\ delay' = initial_delay
    /\ last_exception' = "none"
    /\ episodes_committed' = <<>>
    /\ errors' = <<>>
    /\ result' = NoResult
    /\ raised' = "none"
    /\ cycle_result' = NoResult
    /\ flag_before' = indexes_built
    /\ handle_before' = graphiti
    /\ outcomes' = <<>>
    /\ conn' = "none"
    /\ attempted' = <<>>
    /\ issued' = <<>>
    /\ invocations' = 0
    /\ sleeps' = <<>>
    /\ thrown' = "none"
    /\ UNCHANGED <<client_vars, outage, last_build>>

\* _reconnect(): Graphiti(...) returns a new handle and the flag is reset,
\* or it raises and the handle becomes None (the flag keeps its value)
ReconnectKeepsHandle(ok) ==
    IF ok
    THEN /\ graphiti' = graphiti
         /\ handles_created' = handles_created + 1
         /\ indexes_built' = FALSE
    ELSE /\ graphiti' = None
         /\ UNCHANGED <<handles_created, indexes_built>>

ReconnectKeepsFlag(ok) ==
    IF ok
    THEN /\ graphiti' = handles_created + 1
         /\ handles_created' = handles_created + 1
         /\ indexes_built' = indexes_built
    ELSE /\ graphiti' = None
         /\ UNCHANGED <<handles_created, indexes_built>>

Reconnect(ok) ==
    IF ok
    THEN /\ graphiti' = handles_created + 1
         /\ handles_created' = handles_created + 1
         /\ indexes_built' = FALSE
    ELSE /\ graphiti' = None
         /\ UNCHANGED <<handles_created, indexes_built>>

\* `if not self.graphiti:`
NotGraphitiNever(g) == FALSE

NotGraphiti(g) == g = None

\* `hasattr(self.graphiti, 'driver')` and the driver is not None: a Graphiti
\* handle holds its driver, None has no such attribute
HasDriver(g) == g # None

\* `if not self._ensure_connection(): return {...}`, lines 208-213 with 112-146.
\* _reconnect() catches every exception itself, so the outer handler of
\* _ensure_connection (lines 144-146) is never entered.
EnsureConnection ==
    /\ UNCHANGED <<main_vars, cycle_vars, thrown>>
    /\ pc = "ensure"
    /\ \/ /\ NotGraphiti(graphiti)          \* `if not self.graphiti: return False`
          /\ conn' = "absent"
          /\ result' = UnavailableResult
          /\ pc' = "returned"
          /\ UNCHANGED <<client_vars, outage>>
       \/ /\ ~NotGraphiti(graphiti)         \* verify_connectivity() returns
          /\ HasDriver(graphiti)
          /\ conn' = "alive"
          /\ outage' = FALSE
          /\ pc' = "indexes"
          /\ UNCHANGED <<client_vars, result>>
       \/ /\ ~NotGraphiti(graphiti)         \* driver missing, or the check raises
          /\ UNCHANGED outage
          /\ \E ok \in BOOLEAN :
                /\ ok => handles_created < MaxHandles
                /\ Reconnect(ok)
                /\ conn' = (IF ok THEN "reconnected" ELSE "lost")
          /\ pc' = "indexes"                \* `self._reconnect(); return True`
          /\ UNCHANGED result
    /\ UNCHANGED <<calls, args, timestamp, worker_idx, cur, attempt, delay,
                   last_exception, episodes_committed, errors, raised,
                   cycle_result, flag_before, handle_before, outcomes,
                   attempted, issued, invocations, sleeps, last_build>>

\* `if not self._indexes_built:`
NeedsBuildAlways(flag) == TRUE

NeedsBuild(flag) == ~flag

\* lines 215-222: build the indexes unless the flag is set, then take the
\* timestamp (the clock reads the number of the call).  The await is outside
\* any try: an exception leaves the call.
BuildIndexes ==
    /\ UNCHANGED <<main_vars, cycle_vars, thrown>>
    /\ pc = "indexes"
    /\ IF ~NeedsBuild(indexes_built)
       THEN /\ pc' = "workers"
            /\ timestamp' = calls
            /\ UNCHANGED <<indexes_built, raised, last_build>>
       ELSE IF graphiti = None
       THEN /\ pc' = "raised"               \* None.build_indices_and_constraints
            /\ raised' = AttributeError
            /\ UNCHANGED <<indexes_built, timestamp, last_build>>
       ELSE \E ok \in BOOLEAN :
            /\ last_build' = [handle |-> graphiti, call |-> calls,
                            nth |-> (IF last_build.call = calls
                                     THEN last_build.nth + 1 ELSE 1),
                            ok |-> ok]
            /\ IF ok
               THEN /\ indexes_built' = TRUE
                    /\ pc' = "workers"
                    /\ timestamp' = calls
                    /\ UNCHANGED raised
               ELSE /\ pc' = "raised"
                    /\ raised' = BuildError
                    /\ UNCHANGED <<indexes_built, timestamp>>
    /\ UNCHANGED <<graphiti, handles_created, calls, args, worker_idx, cur, attempt,
                   delay, last_exception, episodes_committed, errors, result,
                   cycle_result, flag_before, handle_before, outage, outcomes,
                   conn, attempted, issued, invocations, sleeps>>

\* the write is scheduled and not awaited: control moves on at once
StartWriteNoAwait(a) ==
    /\ cur' = a
    /\ attempt' = 0
    /\ delay' = initial_delay
    /\ last_exception' = "none"
    /\ invocations' = 0
    /\ sleeps' = <<>>
    /\ attempted' = Append(attempted, a.label)
    /\ pc' = (IF a.stage = "workers" THEN "workers"
             ELSE IF a.stage = "critical" THEN "refinement" ELSE "return")

\* entering `await retry_with_backoff(lambda: self.graphiti.add_episode(...))`
\* for artifact a: delay = initial_delay, last_exception = None, attempt = 0
StartWrite(a) ==
    /\ cur' = a
    /\ attempt' = 0
    /\ delay' = initial_delay
    /\ last_exception' = "none"
    /\ invocations' = 0
    /\ sleeps' = <<>>
    /\ attempted' = Append(attempted, a.label)
    /\ pc' = "retry"

\* one iteration of `for worker_key, worker_label in worker_names.items():`
Workers ==
    /\ UNCHANGED <<main_vars, cycle_vars, thrown>>
    /\ pc = "workers"
    /\ IF worker_idx > Len(worker_names)
       THEN /\ pc' = "critical"
            /\ UNCHANGED <<worker_idx, cur, attempt, delay, last_exception,
                           invocations, sleeps, attempted>>
       ELSE LET w == worker_names[worker_idx]
                content == DictGet(args.worker_results, w.key, "")
            IN  /\ worker_idx' = worker_idx + 1
                /\ IF ~Truthy(content)
                   THEN /\ pc' = "workers"  \* continue
                        /\ UNCHANGED <<cur, attempt, delay, last_exception,
                                       invocations, sleeps, attempted>>
                   ELSE StartWrite([stage |-> "workers", label |-> w.label,
                                    body |-> content])
    /\ UNCHANGED <<client_vars, calls, args, timestamp, episodes_committed, errors,
                   result, raised, cycle_result, flag_before, handle_before,
                   outage, outcomes, conn, issued, last_build>>

\* `if critical_analysis:` (Episode 4)
Critical ==
    /\ UNCHANGED <<main_vars, cycle_vars, thrown>>
    /\ pc = "critical"
    /\ IF Truthy(args.critical_analysis)
       THEN StartWrite([stage |-> "critical", label |-> CriticalLabel,
                        body |-> args.critical_analysis])
       ELSE /\ pc' = "refinement"
            /\ UNCHANGED <<cur, attempt, delay, last_exception, invocations,
                           sleeps, attempted>>
    /\ UNCHANGED <<client_vars, calls, args, timestamp, worker_idx,
                   episodes_committed, errors, result, raised, cycle_result,
                   flag_before, handle_before, outage, outcomes, conn,
                   issued, last_build>>

\* `if refinement_distilled:` (Episode 5)
Refinement ==
    /\ UNCHANGED <<main_vars, cycle_vars, thrown>>
    /\ pc = "refinement"
    /\ IF Truthy(args.refinement_distilled)
       THEN StartWrite([stage |-> "refinement", label |-> RefinementLabel,
                        body |-> ContextBody(args.episode_name,
                                             args.refinement_distilled)])
       ELSE /\ pc' = "return"
            /\ UNCHANGED <<cur, attempt, delay, last_exception, invocations,
                           sleeps, attempted>>
    /\ UNCHANGED <<client_vars, calls, args, timestamp, worker_idx,
                   episodes_committed, errors, result, raised, cycle_result,
                   flag_before, handle_before, outage, outcomes, conn,
                   issued, last_build>>

\* the [METADATA] block of source_description
SourceDesc(session_name, episode_name, label, group_id, ts) ==
    [session |-> session_name, episode |-> episode_name, worker |-> label,
     group_id |-> group_id, timestamp |-> ts]

\* the add_episode(...) request the lambda of artifact a sends on handle h
Request(a, h) ==
    [label |-> a.label,
     name |-> EpName(args.episode_name, a.label),
     episode_body |-> a.body,
     source_description |-> SourceDesc(args.session_name, args.episode_name,
                                       a.label, args.group_id, timestamp),
     reference_time |-> timestamp,
     group_id |-> args.group_id,
     handle |-> h]

\* where control goes once the try/except around an artifact's write is left
NextPcSkipsRefinement(stage) ==
    CASE stage = "workers"    -> "workers"
      [] stage = "critical"   -> "return"
      [] stage = "refinement" -> "return"

NextPc(stage) ==
    CASE stage = "workers"    -> "workers"
      [] stage = "critical"   -> "refinement"
      [] stage = "refinement" -> "return"

\* variant: the wrapped call is invoked again after it returned
AfterCommitAgain(stage) == "retry"

\* after `episodes_committed.append(ep_name)`
AfterCommit(stage) == NextPc(stage)

\* after `except Exception as e: ... errors.append(error_msg)`
AbortOnError(stage) == "return"

\* no `except` around the write: the exception leaves the commit call
RaiseOnError(stage) == "raised"

AfterExcept(stage) == NextPc(stage)

\* retry_with_backoff is left: its locals are gone
LeaveRetry ==
    /\ attempt' = 0
    /\ delay' = initial_delay
    /\ last_exception' = "none"

\* `except Exception as e:` of retry_with_backoff, then of the commit call
HandleException(e) ==
    IF IsRateLimit(e) /\ MayRetry(attempt)
    THEN /\ last_exception' = e
         /\ pc' = "backoff"
         /\ UNCHANGED <<attempt, delay, episodes_committed, errors, outcomes>>
    ELSE /\ errors' = Append(errors, ErrorMsg(EpName(args.episode_name, cur.label), e))
         /\ outcomes' = Append(outcomes, [label |-> cur.label, exc |-> e])
         /\ pc' = AfterExcept(cur.stage)
         /\ LeaveRetry
         /\ UNCHANGED episodes_committed

\* `return await func()` inside `for attempt in range(max_retries + 1):`
RetryInvoke ==
    /\ UNCHANGED <<main_vars, cycle_vars>>
    /\ pc = "retry"
    /\ invocations' = invocations + 1
    /\ IF graphiti = None
       THEN /\ HandleException(AttributeError)  \* None.add_episode: nothing is sent
            /\ thrown' = AttributeError
            /\ UNCHANGED issued
       ELSE /\ issued' = (IF attempt = 0 THEN Append(issued, Request(cur, graphiti))
                          ELSE issued)
            /\ \/ /\ episodes_committed' =
                        Append(episodes_committed, EpName(args.episode_name, cur.label))
                  /\ outcomes' = Append(outcomes, [label |-> cur.label, exc |-> "ok"])
                  /\ pc' = AfterCommit(cur.stage)
                  /\ thrown' = "none"
                  /\ LeaveRetry
                  /\ UNCHANGED errors
               \/ \E e \in WriteExceptions :
                     /\ HandleException(e)
                     /\ thrown' = e
    /\ UNCHANGED <<client_vars, calls, args, timestamp, worker_idx, cur, result,
                   raised, cycle_result, flag_before, handle_before, outage,
                   conn, attempted, sleeps, last_build>>

\* variant: the delay grows by the initial delay
NextDelayLinear(d) == d + initial_delay

\* `delay *= 2  # Exponential backoff: 60s, 120s, 240s`
NextDelay(d) == d * 2

\* `await asyncio.sleep(delay); delay *= 2`, then the next iteration of the
\* loop; were the range used up, line 76 would raise last_exception
Backoff ==
    /\ UNCHANGED <<main_vars, cycle_vars, thrown>>
    /\ pc = "backoff"
    /\ sleeps' = Append(sleeps, delay)
    /\ IF InRange(attempt + 1)
       THEN /\ delay' = NextDelay(delay)
            /\ attempt' = attempt + 1
            /\ pc' = "retry"
            /\ UNCHANGED <<last_exception, errors, outcomes>>
       ELSE /\ errors' = Append(errors, ErrorMsg(EpName(args.episode_name, cur.label),
                                                 last_exception))
            /\ outcomes' = Append(outcomes, [label |-> cur.label,
                                             exc |-> last_exception])
            /\ pc' = AfterExcept(cur.stage)
            /\ LeaveRetry
    /\ UNCHANGED <<client_vars, calls, args, timestamp, worker_idx, cur,
                   episodes_committed, result, raised, cycle_result,
                   flag_before, handle_before, outage,
                   conn, attempted, issued, invocations, last_build>>

\* lines 358-363: the result of a call that reached the write phase
Return ==
    /\ UNCHANGED <<main_vars, cycle_vars>>
    /\ pc = "return"
    /\ result' = CommitResult(episodes_committed, errors)
    /\ pc' = "returned"
    /\ UNCHANGED <<client_vars, calls, args, timestamp, worker_idx, cur, attempt,
                   delay, last_exception, episodes_committed, errors, raised,
                   cycle_result, ghost_vars>>

\* run_research_cycle, lines 161-165: what it returns from the commit's result
CycleResultAlwaysSuccess(res, episode_name) ==
    [status |-> "success", episode_name |-> episode_name,
     episode_count |-> res["episode_count"]]

CycleResult(res, episode_name) ==
    [status |-> res["status"], episode_name |-> episode_name,
     episode_count |-> res["episode_count"]]

\* run_research_cycle after `result = await graph_client.commit_research_episode(`:
\* lines 145-165, as far as the commit's result is concerned
CycleReturn ==
    /\ UNCHANGED <<main_vars, cycle_vars>>
    /\ pc = "returned"
    /\ cycle_result' = CycleResult(result, args.episode_name)
    /\ pc' = "cycle_done"
    /\ UNCHANGED <<client_vars, calls, args, timestamp, worker_idx, cur, attempt,
                   delay, last_exception, episodes_committed, errors, result,
                   raised, ghost_vars>>

Next ==
    \/ CommitCall
    \/ EnsureConnection
    \/ BuildIndexes
    \/ Workers
    \/ Critical
    \/ Refinement
    \/ RetryInvoke
    \/ Backoff
    \/ Return
    \/ CycleReturn

Spec == Init /\ [][Next]_vars

(***************************************************************************)
(* The interactive program of src/main.py: one process at a time running   *)
(* main(), its ResearchSession, and the session directory on disk.  The    *)
(* process may be terminated at any point; the files of the session        *)
(* directory survive it and may be damaged between two runs.               *)
(***************************************************************************)

\* most turns of a refinement conversation that are tracked
MaxTurns == 2

\* what session.json may hold for "state": nothing readable, or a record
RecordedStates == {"TASKING", "RESEARCH", "REFINEMENT", "COMMIT"}

DamagedFiles == {"missing", "corrupt", "partial"}

\* the positions at which the process blocks on input()
InputPcs == {"input_query", "input_clarify", "input_go", "input_refine",
             "input_proceed", "input_new_session", "input_migrate"}

\* variant: approval returns the refinement state
TaskingReturnRefinement(approved) ==
    IF approved THEN "REFINEMENT" ELSE "COMPLETE"

\* tasking_conversation: the state it returns
TaskingReturn(approved) == IF approved THEN "RESEARCH" ELSE "COMPLETE"

\* commit_to_graph_phase: the state it returns
CommitPhaseReturn(again) == IF again THEN "NEW_SESSION" ELSE "COMPLETE"

\* load_existing_session: metadata.get('state', 'REFINEMENT')
MetadataState(record) == IF record = "partial" THEN "REFINEMENT" ELSE record

\* a state assigned to session.state that session.json does not hold
Unsaved(new_state, record) == IF record = new_state THEN "none" ELSE new_state

\* ResearchSession.save_metadata: nothing is written without a session_dir
SaveMetadata(dir, new_state, record) == IF dir THEN new_state ELSE record

\* main(): a fresh start, or --refine with a session that loads
MainStart ==
    /\ main_pc = "start"
    /\ \/ /\ main_pc' = "loop"
          /\ UNCHANGED <<state, session_dir, refinement_log, unsaved>>
       \/ /\ session_json \notin {"missing", "corrupt"}
          /\ state' = MetadataState(session_json)
          /\ state' \in RecordedStates
          /\ session_dir' = TRUE
          /\ refinement_log' = refinement_json
          /\ main_pc' \in {"input_migrate", "loaded"}
          /\ UNCHANGED unsaved
    /\ UNCHANGED <<session_json, refinement_json, commit_vars, cycle_vars>>

\* main(): --refine with a session that does not load; the exception is
\* printed and main returns
MainLoadFails ==
    /\ main_pc = "start"
    /\ \/ session_json \in {"missing", "corrupt"}
       \/ MetadataState(session_json) \notin RecordedStates
    /\ main_pc' = "ended"
    /\ UNCHANGED <<state, session_dir, refinement_log, session_json,
                   refinement_json, unsaved, commit_vars, cycle_vars>>

\* load_existing_session: the migration prompt is answered
InputMigrate ==
    /\ main_pc = "input_migrate"
    /\ main_pc' = "loaded"
    /\ UNCHANGED <<state, session_dir, refinement_log, session_json,
                   refinement_json, unsaved, commit_vars, cycle_vars>>

\* main(): session.state = "REFINEMENT" after the load, nothing written
MainForceRefinement ==
    /\ main_pc = "loaded"
    /\ state' = "REFINEMENT"
    /\ unsaved' = Unsaved("REFINEMENT", session_json)
    /\ main_pc' = "loop"
    /\ UNCHANGED <<session_dir, refinement_log, session_json, refinement_json,
                   commit_vars, cycle_vars>>

\* main(): session is None or TASKING: a new ResearchSession, then the query
\* prompt of tasking_conversation
MainTasking ==
    /\ main_pc = "loop"
    /\ state \in {"none", "TASKING"}
    /\ state' = "TASKING"
    /\ session_dir' = FALSE
    /\ refinement_log' = 0
    /\ main_pc' = "input_query"
    /\ UNCHANGED <<session_json, refinement_json, unsaved, commit_vars, cycle_vars>>

\* tasking_conversation: an empty query returns COMPLETE, any other one opens
\* the clarification conversation
InputQuery ==
    /\ main_pc = "input_query"
    /\ \/ /\ state' = TaskingReturn(FALSE)
          /\ unsaved' = Unsaved(state', SaveMetadata(session_dir, state, session_json))
          /\ main_pc' = "loop"
       \/ /\ main_pc' = "input_clarify"
          /\ UNCHANGED <<state, unsaved>>
    /\ UNCHANGED <<session_dir, refinement_log, session_json, refinement_json,
                   commit_vars, cycle_vars>>

\* tasking_conversation: the clarification loop ends
InputClarify ==
    /\ main_pc = "input_clarify"
    /\ main_pc' = "input_go"
    /\ UNCHANGED <<state, session_dir, refinement_log, session_json,
                   refinement_json, unsaved, commit_vars, cycle_vars>>

\* tasking_conversation: 'go' runs initialize_filesystem, which writes the
\* first session.json; anything else returns COMPLETE
InputGo ==
    /\ main_pc = "input_go"
    /\ \/ /\ session_dir' = TRUE
          /\ session_json' = SaveMetadata(TRUE, state, session_json)
          /\ refinement_json' = 0
          /\ unsaved' = Unsaved(state, session_json')
          /\ main_pc' = "approved"
          /\ UNCHANGED state
       \/ /\ state' = TaskingReturn(FALSE)
          /\ unsaved' = Unsaved(state', session_json)
          /\ main_pc' = "loop"
          /\ UNCHANGED <<session_dir, session_json, refinement_json>>
    /\ UNCHANGED <<refinement_log, commit_vars, cycle_vars>>

\* tasking_conversation: session.state = "RESEARCH"; save_metadata(); return
TaskingApproved ==
    /\ main_pc = "approved"
    /\ state' = TaskingReturn(TRUE)
    /\ session_json' = SaveMetadata(session_dir, state', session_json)
    /\ unsaved' = Unsaved(state', session_json')
    /\ main_pc' = "loop"
    /\ UNCHANGED <<session_dir, refinement_log, refinement_json, commit_vars, cycle_vars>>

\* main(): RESEARCH: run_research_phase, which ends with
\* session.state = "REFINEMENT"; save_metadata(); return "REFINEMENT"
MainResearch ==
    /\ main_pc = "loop"
    /\ state = "RESEARCH"
    /\ state' = "REFINEMENT"
    /\ session_json' = SaveMetadata(session_dir, state', session_json)
    /\ unsaved' = Unsaved(state', session_json')
    /\ UNCHANGED <<main_pc, session_dir, refinement_log, refinement_json,
                   commit_vars, cycle_vars>>

\* main(): REFINEMENT: refinement_conversation waits for the user
MainRefinement ==
    /\ main_pc = "loop"
    /\ state = "REFINEMENT"
    /\ main_pc' = "input_refine"
    /\ UNCHANGED <<state, session_dir, refinement_log, session_json,
                   refinement_json, unsaved, commit_vars, cycle_vars>>

\* refinement_conversation: one user input, by its intent
InputRefine ==
    /\ main_pc = "input_refine"
    /\ \/ \* EXIT: return "COMPLETE", nothing written
          /\ state' = "COMPLETE"
          /\ unsaved' = Unsaved(state', session_json)
          /\ main_pc' = "loop"
          /\ UNCHANGED <<refinement_log, session_json, refinement_json>>
       \/ \* COMMIT: session.state = "COMMIT"; save_metadata(); return
          /\ state' = "COMMIT"
          /\ session_json' = SaveMetadata(session_dir, state', session_json)
          /\ unsaved' = Unsaved(state', session_json')
          /\ main_pc' = "loop"
          /\ UNCHANGED <<refinement_log, refinement_json>>
       \/ \* DEEP_RESEARCH: the confirmation prompt
          /\ main_pc' = "input_proceed"
          /\ UNCHANGED <<state, refinement_log, session_json, refinement_json,
                         unsaved>>
       \/ \* a question: the turn is logged and save_refinement_context runs
          /\ refinement_log < MaxTurns
          /\ refinement_log' = refinement_log + 1
          /\ refinement_json' = refinement_log'
          /\ UNCHANGED <<main_pc, state, session_json, unsaved>>
    /\ UNCHANGED <<session_dir, commit_vars, cycle_vars>>

\* refinement_conversation: deep research confirmed or declined; confirmed,
\* run_research_phase runs with research_dir set and leaves session.state
InputProceed ==
    /\ main_pc = "input_proceed"
    /\ main_pc' = "input_refine"
    /\ UNCHANGED <<state, session_dir, refinement_log, session_json,
                   refinement_json, unsaved, commit_vars, cycle_vars>>

\* main(): COMMIT: commit_to_graph_phase up to its prompt
MainCommit ==
    /\ main_pc = "loop"
    /\ state = "COMMIT"
    /\ main_pc' = "input_new_session"
    /\ UNCHANGED <<state, session_dir, refinement_log, session_json,
                   refinement_json, unsaved, commit_vars, cycle_vars>>

\* commit_to_graph_phase: return "NEW_SESSION" or "COMPLETE", nothing written
InputNewSession ==
    /\ main_pc = "input_new_session"
    /\ \E again \in BOOLEAN : state' = CommitPhaseReturn(again)
    /\ unsaved' = Unsaved(state', session_json)
    /\ main_pc' = "loop"
    /\ UNCHANGED <<session_dir, refinement_log, session_json, refinement_json,
                   commit_vars, cycle_vars>>

\* main(): NEW_SESSION: session = None; continue
MainNewSession ==
    /\ main_pc = "loop"
    /\ state = "NEW_SESSION"
    /\ state' = "none"
    /\ session_dir' = FALSE
    /\ refinement_log' = 0
    /\ UNCHANGED <<main_pc, session_json, refinement_json, unsaved,
                   commit_vars, cycle_vars>>

\* main(): COMPLETE: break
MainComplete ==
    /\ main_pc = "loop"
    /\ state = "COMPLETE"
    /\ main_pc' = "ended"
    /\ UNCHANGED <<state, session_dir, refinement_log, session_json,
                   refinement_json, unsaved, commit_vars, cycle_vars>>

\* the process is gone (it returned, or was terminated where it stood): its
\* memory is lost, the session directory stays
ProcessEnds ==
    /\ main_pc # "start"
    /\ main_pc' = "start"
    /\ state' = "none"
    /\ session_dir' = FALSE
    /\ refinement_log' = 0
    /\ unsaved' = "none"
    /\ UNCHANGED <<session_json, refinement_json, commit_vars, cycle_vars>>

\* between two runs session.json is removed, truncated, or loses its fields
FileDamaged ==
    /\ main_pc = "start"
    /\ session_json' \in DamagedFiles
    /\ UNCHANGED <<main_pc, state, session_dir, refinement_log,
                   refinement_json, unsaved, commit_vars, cycle_vars>>

MainInit ==
    /\ MainIdle
    /\ CycleIdle
    /\ ClientInit
    /\ graphiti = 1

MainNext ==
    \/ MainStart
    \/ MainLoadFails
    \/ InputMigrate
    \/ MainForceRefinement
    \/ MainTasking
    \/ InputQuery
    \/ InputClarify
    \/ InputGo
    \/ TaskingApproved
    \/ MainResearch
    \/ MainRefinement
    \/ InputRefine
    \/ InputProceed
    \/ MainCommit
    \/ InputNewSession
    \/ MainNewSession
    \/ MainComplete
    \/ ProcessEnds
    \/ FileDamaged

MainSpec == MainInit /\ [][MainNext]_vars

(***************************************************************************)
(* The research cycle of src/core/: one ResearchSession (core/session.py)  *)
(* with its session.json, and run_research_cycle (core/research_cycle.py)  *)
(* stepping through execute_research (workers/research.py), the            *)
(* distillation (utils/files.py) and the commit.  The LLM API and the      *)
(* graph client are collaborators: a generation returns a text, returns    *)
(* nothing, or raises; the commit returns one of the results the client    *)
(* can build, or raises.                                                   *)
(***************************************************************************)

\* run_research_cycle calls tracked
MaxCycles == 2

\* sleeps of the polling loop tracked
MaxPolls == 2

\* queries: the one the session is created with, and the research focus of
\* the cycles
OriginalQuery == "Brain memory for LLMs"

CycleQueries == {"Graph memory"}

\* datetime.now().isoformat()
Now == "now"

\* messages of the tasking conversation (Anthropic role/content format)
AssistantMsg == [role |-> "assistant", content |-> "which angle?"]

UserMsg == [role |-> "user", content |-> "downmarket signals"]

\* tasking_context values: the empty dict of __init__, and dicts with a
\* conversation_history
TaskingContexts ==
    { EmptyDict,
      [conversation_history |-> <<AssistantMsg>>],
      [conversation_history |-> <<AssistantMsg, UserMsg>>] }

\* what the user and the assistant say in the refinement turns, by the
\* number of turns already pending
TurnInputs(n) == IF n % 2 = 0 THEN <<"why", "because">> ELSE <<"how", "like this">>

\* the text distill_conversation returns for an empty conversation
Placeholder == "(No refinement conversation - research triggered immediately)"

\* the batches considered: every worker succeeds, one errors, one returns no
\* text, every one errors
Batches ==
    { [k \in DeclaredKeys |-> "findings"],
      [k \in DeclaredKeys |-> IF k = "academic_researcher" THEN "errored" ELSE "findings"],
      [k \in DeclaredKeys |-> IF k = "tool_analyzer" THEN "" ELSE "findings"],
      [k \in DeclaredKeys |-> "errored"] }

\* how the structuring model answers: a text for whatever it is given, a text
\* only for a non-empty input, or an API error
Structurings == {"verbose", "faithful", "raises"}

\* the write failures of one commit call that are considered
FailingSets ==
    { {}, {"Academic Research"},
      {"Academic Research", "Industry Intelligence", "Tool Analysis",
       "Critical Analysis", "Refinement Context"} }

\* `if session.tasking_context:`: truthiness of a dict
DictTruthy(d) == DOMAIN d # {}

\* variant: an empty list is distilled like any other
ListEmptyNever(l) == FALSE

\* `if not conversation:`: an empty list
ListEmpty(l) == Len(l) = 0

\* ResearchSession.__init__
NewSession(query) ==
    [query |-> query, original_query |-> query, state |-> "TASKING",
     episode_count |-> 0, episode_name |-> "", tasking_context |-> EmptyDict,
     pending_refinement |-> <<>>, narrative |-> "",
     research_findings |-> EmptyDict]

\* variant: pending turns are not written
SaveRecordWithoutPending(s) ==
    [query |-> s.query, original_query |-> s.original_query,
     state |-> s.state, episode_count |-> s.episode_count,
     episode_name |-> s.episode_name, tasking_context |-> s.tasking_context,
     pending_refinement |-> <<>>, created_at |-> Now]

\* ResearchSession.save: the dict written to session.json
SaveRecord(s) ==
    [query |-> s.query, original_query |-> s.original_query,
     state |-> s.state, episode_count |-> s.episode_count,
     episode_name |-> s.episode_name, tasking_context |-> s.tasking_context,
     pending_refinement |-> s.pending_refinement, created_at |-> Now]

\* variant: original_query is left as __init__ set it
LoadRecordOriginalFromQuery(data) ==
    [NewSession(DictGet(data, "query", "")) EXCEPT
        !.state = DictGet(data, "state", "TASKING"),
        !.episode_count = DictGet(data, "episode_count", 0),
        !.episode_name = DictGet(data, "episode_name", ""),
        !.tasking_context = DictGet(data, "tasking_context", EmptyDict),
        !.pending_refinement = DictGet(data, "pending_refinement", <<>>)]

\* ResearchSession.load on a dict: every field by data.get(key, default)
LoadRecord(data) ==
    [NewSession(DictGet(data, "query", "")) EXCEPT
        !.state = DictGet(data, "state", "TASKING"),
        !.original_query =
            DictGet(data, "original_query", DictGet(data, "query", "")),
        !.episode_count = DictGet(data, "episode_count", 0),
        !.episode_name = DictGet(data, "episode_name", ""),
        !.tasking_context = DictGet(data, "tasking_context", EmptyDict),
        !.pending_refinement = DictGet(data, "pending_refinement", <<>>)]

\* ResearchSession.load: the exception it raises, if any
LoadError(file) ==
    CASE file.content = "missing" -> "FileNotFoundError"
      [] file.content = "corrupt" -> "JSONDecodeError"
      [] OTHER -> "none"

\* a dict without the keys in `lost`
WithoutKeys(data, lost) == [k \in DOMAIN data \ lost |-> data[k]]

\* variant: the pending turns are kept
ClearRefinementNever(s) == s

\* ResearchSession.clear_refinement
ClearRefinement(s) == [s EXCEPT !.pending_refinement = <<>>]

\* variant: a failed commit leaves the count of cycles as it is
NextEpisodeCountOnSuccess(n, res) == IF res.status = "success" THEN n + 1 ELSE n

\* run_research_cycle: session.episode_count += 1, whatever the commit returned
NextEpisodeCount(n, res) == n + 1

\* a turn that was part of one more distilled conversation (2: more than one)
Distilled(n) == IF n < 2 THEN n + 1 ELSE 2

\* the turn add_refinement_turn appends
Turn(user_input, assistant_response) ==
    [user_input |-> user_input, assistant_response |-> assistant_response,
     timestamp |-> Now]

RECURSIVE ConvertFrom(_, _, _)
\* convert_tasking_to_conversation: the loop over conversation_history,
\* from message i on, with the pending assistant message
ConvertFrom(history, i, pending_assistant) ==
    IF i > Len(history) THEN <<>>
    ELSE IF history[i].role = "assistant"
         THEN ConvertFrom(history, i + 1, history[i].content)
    ELSE IF history[i].role = "user"
         THEN << [user_input |-> history[i].content,
                  assistant_response |-> pending_assistant,
                  timestamp |-> ""] >>
              \o ConvertFrom(history, i + 1, "")
    ELSE ConvertFrom(history, i + 1, pending_assistant)

convert_tasking_to_conversation(tasking_context) ==
    ConvertFrom(DictGet(tasking_context, "conversation_history", <<>>), 1, "")

\* variant: every cycle distils the pending turns
ConversationPendingOnly(s) == s.pending_refinement

\* run_research_cycle: the conversation that led to this research
Conversation(s) ==
    IF s.episode_count = 0
    THEN IF DictTruthy(s.tasking_context)
         THEN convert_tasking_to_conversation(s.tasking_context)
         ELSE <<>>
    ELSE s.pending_refinement

\* structure_research_for_graph: the text the structuring model returns
Structured(raw, how) ==
    CASE how = "verbose" -> "findings"
      [] how = "faithful" -> raw
      [] OTHER -> ""

\* extract_batch_results: only succeeded requests get an entry
Extract(batch, how) ==
    [k \in {r \in DOMAIN batch : batch[r] # "errored"} |->
        Structured(batch[k], how)]

\* variant: the commit follows the distillation at once
AfterDistillCommit == "commit"

\* run_research_cycle: what follows distill_conversation
AfterDistill == "files"

\* the steps of one run_research_cycle, in the order of its code
CycleSteps == <<"workers", "reviewer", "distill", "files", "commit">>

\* the five artifacts of a commit call in the order they are written
Artifacts(wr, ca, rd) ==
    [i \in 1..Len(worker_names) |->
        [label |-> worker_names[i].label,
         body |-> DictGet(wr, worker_names[i].key, "")]]
      \o << [label |-> CriticalLabel, body |-> ca],
            [label |-> RefinementLabel, body |-> rd] >>

\* commit_research_episode as a whole: the result it returns when the writes
\* of the labels in `failing` end with exception e and the others succeed
CommitOutcome(call, failing, e) ==
    LET written == SelectSeq(Artifacts(call.worker_results,
                                       call.critical_analysis,
                                       call.refinement_distilled),
                             LAMBDA a : Truthy(a.body))
        good == SelectSeq(written, LAMBDA a : a.label \notin failing)
        bad == SelectSeq(written, LAMBDA a : a.label \in failing)
    IN  CommitResult(
            [i \in 1..Len(good) |-> EpName(call.episode_name, good[i].label)],
            [i \in 1..Len(bad) |->
                ErrorMsg(EpName(call.episode_name, bad[i].label), e)])

(* ----------------------------- the session ---------------------------- *)

\* a ResearchSession is constructed in a new directory and given the tasking
\* conversation
CreateSession ==
    /\ cycle_pc = "idle"
    /\ session = NoSession
    /\ session_file = MissingFile
    /\ \E tc \in TaskingContexts :
          session' = [NewSession(OriginalQuery) EXCEPT !.tasking_context = tc]
    /\ fresh_load' = FALSE
    /\ load_error' = "none"
    /\ distilled_in' = <<>>
    /\ cycle_return' = NoResult
    /\ UNCHANGED <<session_file, saved, cycle_pc, call_vars, commit_vars,
                   main_vars>>

\* ResearchSession.save
Save ==
    /\ cycle_pc = "idle"
    /\ session # NoSession
    /\ session_file' = FileHolding(SaveRecord(session))
    /\ saved' = session
    /\ cycle_return' = NoResult
    /\ UNCHANGED <<session, load_error, fresh_load, cycle_pc, distilled_in,
                   call_vars, commit_vars, main_vars>>

\* ResearchSession.load in a new process: the object is what the file gives,
\* or the exception leaves the caller without a session
Load ==
    /\ cycle_pc = "idle"
    /\ session = NoSession
    /\ load_error' = LoadError(session_file)
    /\ IF load_error' = "none"
       THEN /\ session' = LoadRecord(session_file.data)
            /\ fresh_load' = TRUE
            /\ distilled_in' =
                  [i \in 1..Len(session'.pending_refinement) |->
                      IF i <= Len(distilled_in) THEN distilled_in[i] ELSE 0]
       ELSE /\ session' = NoSession
            /\ fresh_load' = FALSE
            /\ UNCHANGED distilled_in
    /\ cycle_return' = NoResult
    /\ UNCHANGED <<session_file, saved, cycle_pc, call_vars, commit_vars,
                   main_vars>>

\* variant: every recorded turn is distilled at once
AddRefinementTurnDistilling ==
    /\ cycle_pc = "idle"
    /\ session # NoSession
    /\ Len(session.pending_refinement) < MaxTurns
    /\ LET t == TurnInputs(Len(session.pending_refinement))
       IN  session' = [session EXCEPT !.pending_refinement =
                           Append(@, Turn(t[1], t[2]))]
    /\ fresh_load' = FALSE
    /\ distill_calls' = distill_calls + 1
    /\ distilled_in' = Append(distilled_in, 0)
    /\ cycle_return' = NoResult
    /\ UNCHANGED <<session_file, load_error, saved, cycle_pc, research_vars,
                   conversation_for_distillation, refinement_distilled,
                   commit_call, commit_result, steps, commit_vars, main_vars>>

\* ResearchSession.add_refinement_turn
AddRefinementTurn ==
    /\ cycle_pc = "idle"
    /\ session # NoSession
    /\ Len(session.pending_refinement) < MaxTurns
    /\ LET t == TurnInputs(Len(session.pending_refinement))
       IN  session' = [session EXCEPT !.pending_refinement =
                           Append(@, Turn(t[1], t[2]))]
    /\ fresh_load' = FALSE
    /\ distilled_in' = Append(distilled_in, 0)
    /\ cycle_return' = NoResult
    /\ UNCHANGED <<session_file, load_error, saved, cycle_pc,
                   call_vars, commit_vars, main_vars>>

\* between two processes session.json is removed, truncated, or loses fields
RecordDamaged ==
    /\ cycle_pc = "idle"
    /\ session = NoSession
    /\ session_file.content = "json"
    /\ \/ session_file' \in {MissingFile, CorruptFile}
       \/ \E lost \in {{"state", "episode_count"}} :
             /\ lost \subseteq DOMAIN session_file.data
             /\ session_file' = FileHolding(WithoutKeys(session_file.data, lost))
    /\ saved' = NoSession
    /\ cycle_return' = NoResult
    /\ UNCHANGED <<session, load_error, fresh_load, cycle_pc, distilled_in,
                   call_vars, commit_vars, main_vars>>

\* the process ends: the object is gone, the file stays
SessionDropped ==
    /\ cycle_pc = "idle"
    /\ session # NoSession
    /\ session' = NoSession
    /\ fresh_load' = FALSE
    /\ cycle_return' = NoResult
    /\ UNCHANGED <<session_file, load_error, saved, cycle_pc, distilled_in,
                   call_vars, commit_vars, main_vars>>

(* ------------------------- run_research_cycle -------------------------- *)

\* run_research_cycle is left, by return or by an exception
CallEnds ==
    /\ batch_status' = "none"
    /\ polls' = 0
    /\ generated' = EmptyDict
    /\ worker_results' = EmptyDict
    /\ critical_analysis' = ""
    /\ conversation_for_distillation' = <<>>
    /\ refinement_distilled' = ""
    /\ distill_calls' = 0
    /\ commit_call' = NoArgs
    /\ commit_result' = NoResult
    /\ steps' = <<>>

\* run_research_cycle is called; execute_research creates the worker batch
RunResearchCycle ==
    /\ cycle_pc = "idle"
    /\ session # NoSession
    /\ session.episode_count < MaxCycles
    /\ \E query \in CycleQueries :
          commit_call' = [NoArgs EXCEPT !.episode_name = query]
    /\ cycle_pc' = "poll"
    /\ batch_status' = "in_progress"
    /\ cycle_return' = NoResult
    /\ UNCHANGED <<store_vars, polls, generated, worker_results,
                   critical_analysis, distill_vars, commit_result, steps,
                   distilled_in, commit_vars, main_vars>>

\* execute_research: one round of `while True:`: batches.retrieve, then
\* break on "ended" or time.sleep(10)
Poll ==
    /\ cycle_pc = "poll"
    /\ \/ /\ batch_status' = "ended"
          /\ cycle_pc' = "extract"
          /\ UNCHANGED polls
       \/ /\ polls < MaxPolls
          /\ batch_status' = "in_progress"
          /\ polls' = polls + 1
          /\ UNCHANGED cycle_pc
    /\ UNCHANGED <<store_vars, generated, worker_results, critical_analysis,
                   distill_vars, commit_call, commit_result, steps,
                   distilled_in, cycle_return, commit_vars, main_vars>>

\* execute_research: extract_batch_results; a structuring call that raises
\* leaves execute_research and run_research_cycle
ExtractResults ==
    /\ cycle_pc = "extract"
    /\ \E batch \in Batches, how \in Structurings :
          /\ generated' = batch
          /\ IF how = "raises" /\ DOMAIN Extract(batch, how) # {}
             THEN /\ cycle_pc' = "research_raised"
                  /\ UNCHANGED <<worker_results, steps>>
             ELSE /\ cycle_pc' = "critic"
                  /\ worker_results' = Extract(batch, how)
                  /\ steps' = Append(steps, "workers")
    /\ UNCHANGED <<store_vars, batch_status, polls, critical_analysis,
                   distill_vars, commit_call, commit_result, distilled_in,
                   cycle_return, commit_vars, main_vars>>

\* execute_research: run_critical_analyst returns its text, or its
\* messages.create raises
CriticalAnalyst ==
    /\ cycle_pc = "critic"
    /\ \/ /\ critical_analysis' \in Texts
          /\ cycle_pc' = "distill"
          /\ steps' = Append(steps, "reviewer")
       \/ /\ cycle_pc' = "research_raised"
          /\ UNCHANGED <<critical_analysis, steps>>
    /\ UNCHANGED <<store_vars, batch_status, polls, generated, worker_results,
                   distill_vars, commit_call, commit_result, distilled_in,
                   cycle_return, commit_vars, main_vars>>

\* run_research_cycle: the conversation is chosen and distill_conversation is
\* called; for a non-empty conversation the model returns a text or raises
Distill ==
    /\ cycle_pc = "distill"
    /\ conversation_for_distillation' = Conversation(session)
    /\ distill_calls' = distill_calls + 1
    /\ \/ /\ IF ListEmpty(conversation_for_distillation')
             THEN refinement_distilled' = Placeholder
             ELSE refinement_distilled' \in {"", "distilled"}
          /\ distilled_in' =
                [i \in 1..Len(distilled_in) |->
                    IF \E j \in 1..Len(conversation_for_distillation') :
                          conversation_for_distillation'[j] =
                              session.pending_refinement[i]
                    THEN Distilled(distilled_in[i])
                    ELSE distilled_in[i]]
          /\ cycle_pc' = AfterDistill
          /\ steps' = Append(steps, "distill")
       \/ /\ ~ListEmpty(conversation_for_distillation')
          /\ cycle_pc' = "cycle_raised"
          /\ UNCHANGED <<refinement_distilled, steps, distilled_in>>
    /\ UNCHANGED <<store_vars, research_vars, commit_call, commit_result,
                   cycle_return, commit_vars, main_vars>>

\* run_research_cycle: refinement_context.txt and refinement_distilled.txt
\* are written into the episode directory
WriteRefinementFiles ==
    /\ cycle_pc = "files"
    /\ cycle_pc' = "commit"
    /\ steps' = Append(steps, "files")
    /\ UNCHANGED <<store_vars, research_vars, distill_vars, commit_call,
                   commit_result, distilled_in, cycle_return, commit_vars,
                   main_vars>>

\* run_research_cycle: graph_client.commit_research_episode(...) returns the
\* result of its writes or the unavailable result, or raises
Commit ==
    /\ cycle_pc = "commit"
    /\ commit_call' =
          [session_name |-> session.original_query,
           episode_name |-> commit_call.episode_name,
           group_id |-> GroupId,
           worker_results |-> worker_results,
           critical_analysis |-> critical_analysis,
           refinement_distilled |-> refinement_distilled]
    /\ \/ /\ \E failing \in FailingSets :
                commit_result' = CommitOutcome(commit_call', failing, MalformedError)
          /\ cycle_pc' = "update"
          /\ steps' = Append(steps, "commit")
       \/ /\ commit_result' = UnavailableResult
          /\ cycle_pc' = "update"
          /\ steps' = Append(steps, "commit")
       \/ /\ cycle_pc' = "cycle_raised"
          /\ UNCHANGED <<commit_result, steps>>
    /\ UNCHANGED <<store_vars, research_vars, distill_vars, distilled_in,
                   cycle_return, commit_vars, main_vars>>

\* run_research_cycle: the session is updated and saved, and the call returns
Update ==
    /\ cycle_pc = "update"
    /\ session' = ClearRefinement(
                      [session EXCEPT
                          !.episode_count = NextEpisodeCount(@, commit_result),
                          !.episode_name = commit_call.episode_name,
                          !.research_findings = worker_results,
                          !.query = commit_call.episode_name,
                          !.state = "REFINEMENT"])
    /\ session_file' = FileHolding(SaveRecord(session'))
    /\ saved' = session'
    /\ fresh_load' = FALSE
    /\ distilled_in' = [i \in 1..Len(session'.pending_refinement) |->
                           distilled_in[i]]
    /\ cycle_return' = CycleResult(commit_result, commit_call.episode_name)
    /\ cycle_pc' = "idle"
    /\ CallEnds
    /\ UNCHANGED <<load_error, commit_vars, main_vars>>

\* the exception leaves run_research_cycle: the session is as it was
CycleRaised ==
    /\ cycle_pc \in {"research_raised", "cycle_raised"}
    /\ cycle_pc' = "idle"
    /\ CallEnds
    /\ UNCHANGED <<store_vars, distilled_in, cycle_return, commit_vars,
                   main_vars>>

CycleInit ==
    /\ CycleIdle
    /\ MainIdle
    /\ ClientInit
    /\ graphiti = 1

CycleNext ==
    \/ CreateSession
    \/ Save
    \/ Load
    \/ AddRefinementTurn
    \/ RecordDamaged
    \/ SessionDropped
    \/ RunResearchCycle
    \/ Poll
    \/ ExtractResults
    \/ CriticalAnalyst
    \/ Distill
    \/ WriteRefinementFiles
    \/ Commit
    \/ Update
    \/ CycleRaised

CycleSpec == CycleInit /\ [][CycleNext]_vars

(* ------------------------- vocabulary of the claims -------------------- *)

\* the artifacts of a call as the protocol declares them, in commit order
DeclaredOrder ==
    <<"Academic Research", "Industry Intelligence", "Tool Analysis",
      "Critical Analysis", "Refinement Context">>

Rank(label) == CHOOSE i \in 1..Len(DeclaredOrder) : DeclaredOrder[i] = label

\* the text the caller passed for an artifact ("" when the key is missing)
WorkerText(key) ==
    IF key \in DOMAIN args.worker_results THEN args.worker_results[key] ELSE ""

TextOf(label) ==
    CASE label = "Academic Research"     -> WorkerText("academic_researcher")
      [] label = "Industry Intelligence" -> WorkerText("industry_intelligence")
      [] label = "Tool Analysis"         -> WorkerText("tool_analyzer")
      [] label = "Critical Analysis"     -> args.critical_analysis
      [] label = "Refinement Context"    -> args.refinement_distilled

\* number of non-empty artifacts passed in: worker texts, critique, refinement
NonEmptyArtifacts ==
    Cardinality({k \in DOMAIN args.worker_results : args.worker_results[k] # ""})
      + (IF args.critical_analysis # "" THEN 1 ELSE 0)
      + (IF args.refinement_distilled # "" THEN 1 ELSE 0)

InSeq(x, seq) == \E i \in 1..Len(seq) : seq[i] = x

NameOf(label) == <<args.episode_name, label>>

Committed(label) == InSeq(NameOf(label), episodes_committed)

Failed(label) == \E i \in 1..Len(errors) : errors[i].failed = NameOf(label)

InWrite == pc \in {"retry", "backoff"}

(* ------------------------------- C1 ------------------------------------ *)

\* C1: in every call the number of committed episodes (and the episode_count
\* returned) is at most the number of non-empty artifacts passed in, and no
\* write is started or sent for an artifact whose text is empty or missing.
C1_CommittedAtMostNonEmpty ==
    /\ Len(episodes_committed) <= NonEmptyArtifacts
    /\ (pc = "returned" => result.episode_count <= NonEmptyArtifacts)
    /\ \A i \in 1..Len(issued) : TextOf(issued[i].label) # ""
    /\ \A i \in 1..Len(attempted) : TextOf(attempted[i]) # ""

\* a call that returned with each of its three non-empty artifacts committed
\* and nothing sent for the others, the academic worker's text being ""
C1_Witness ==
    /\ pc = "returned"
    /\ result.episode_count = NonEmptyArtifacts
    /\ result.episode_count = 3
    /\ "academic_researcher" \in DOMAIN args.worker_results
    /\ args.worker_results["academic_researcher"] = ""
    /\ Len(issued) = 3

(* ------------------------------- C2 ------------------------------------ *)

\* C2: the writes of one call are started in the declared order (academic,
\* industry, tool, critique, refinement), each artifact once, and while an
\* artifact's write is in progress (retries and sleeps included) every
\* non-empty artifact before it has finished: committed or recorded as failed.
C2_FixedOrder ==
    /\ \A i, j \in 1..Len(attempted) :
          i < j => Rank(attempted[i]) < Rank(attempted[j])
    /\ InWrite =>
          \A k \in 1..Len(DeclaredOrder) :
             (k < Rank(cur.label) /\ TextOf(DeclaredOrder[k]) # "")
                => (Committed(DeclaredOrder[k]) \/ Failed(DeclaredOrder[k]))
    /\ InWrite => (~Committed(cur.label) /\ ~Failed(cur.label))

\* the refinement write is being retried after all four earlier artifacts
\* finished, one of them as a recorded failure
C2_Witness ==
    /\ pc = "retry"
    /\ cur.label = "Refinement Context"
    /\ attempt = 1
    /\ attempted = DeclaredOrder
    /\ Failed("Tool Analysis")
    /\ Committed("Critical Analysis")

(* ------------------------------- C3 ------------------------------------ *)

\* C3: once the write phase is reached the call never raises and a failed
\* write never aborts it: every started write ends committed or as one error
\* entry, and the returned call has started the write of every non-empty
\* declared artifact, whichever writes failed.
C3_FailureDoesNotAbort ==
    /\ pc = "raised" => attempted = <<>>
    /\ \A i \in 1..Len(attempted) :
          (InWrite /\ i = Len(attempted))
             \/ Committed(attempted[i]) \/ Failed(attempted[i])
    /\ Len(episodes_committed) + Len(errors) + (IF InWrite THEN 1 ELSE 0)
          = Len(attempted)
    /\ (pc = "returned" /\ conn # "absent") =>
          \A k \in 1..Len(DeclaredOrder) :
             TextOf(DeclaredOrder[k]) # "" => InSeq(DeclaredOrder[k], attempted)

\* the first worker's write failed and all four later artifacts were still
\* written, two of them failing too
C3_Witness ==
    /\ pc = "returned"
    /\ attempted = DeclaredOrder
    /\ Failed("Academic Research")
    /\ Failed("Critical Analysis")
    /\ Len(errors) = 3
    /\ Committed("Refinement Context")

(* ------------------------------- C4 ------------------------------------ *)

\* C4: every returned result holds status, episode_count, the list of
\* committed names and the list of errors; status is success exactly when an
\* episode was committed, and the count is the length of the list of names.
C4_ResultShape ==
    pc = "returned" =>
       /\ {"status", "episode_count", "episodes", "errors"} \subseteq DOMAIN result
       /\ (result.status = "success") = (Len(result.episodes) >= 1)
       /\ result.status \in {"success", "error"}
       /\ result.episode_count = Len(result.episodes)

(* ------------------------------- C5 ------------------------------------ *)

\* the backend could be neither reached nor verified when the call began:
\* no handle, or a handle that failed the check and could not be recreated
Unavailable == conn \in {"absent", "lost"}

\* C5: a call that finds the connection unavailable returns status error
\* with episode_count 0 and sends nothing to the backend: no add_episode and
\* no index build.
C5_UnavailableNoWrites ==
    Unavailable =>
       /\ pc # "raised"
       /\ issued = <<>>
       /\ last_build.call # calls
       /\ (pc = "returned" => (result.status = "error" /\ result.episode_count = 0))

(* ------------------------------- C6 ------------------------------------ *)

\* C6: when the handle can be neither verified nor recreated the call does
\* not raise: it returns the explicit unavailable result.
C6_LostConnectionReturnsUnavailable ==
    conn = "lost" =>
       /\ raised = "none"
       /\ (pc = "returned" => result = UnavailableResult)

(* ------------------------------- C7 ------------------------------------ *)

BuildInvoked == last_build' # last_build

\* C7 as stated: on one handle (no reconnection) only the first call invokes
\* the index build, so no build is invoked on a handle that had one before.
C7_OnlyFirstCallBuilds ==
    [][BuildInvoked => last_build.handle # last_build'.handle]_vars

\* C7 amended: on one handle no call invokes the index build once a build on
\* that handle has completed; a call on a healthy handle whose build is still
\* owed does invoke it.
C7_NoBuildAfterCompletedBuild ==
    /\ [][BuildInvoked =>
            ~(last_build.ok /\ last_build.handle = last_build'.handle)]_vars
    /\ []((conn = "alive" /\ ~flag_before /\ pc \notin {"ensure", "indexes"})
             => (last_build.call = calls /\ last_build.handle = graphiti))

\* the second call on the handle whose indexes the first call built has
\* written its episodes without another build
C7_Witness ==
    /\ calls = 2
    /\ conn = "alive"
    /\ flag_before
    /\ pc = "returned"
    /\ last_build.call = 1
    /\ last_build.ok
    /\ last_build.handle = graphiti
    /\ Len(issued) >= 1

(* ------------------------------- C8 ------------------------------------ *)

\* C8: a call that lost the connection and recreated the handle finds the
\* flag reset, invokes the index build exactly once, on the new handle, and
\* sends its writes only after that build completed, whatever the flag was.
C8_ReconnectRebuildsOnce ==
    conn = "reconnected" =>
       /\ (pc = "indexes" => ~indexes_built)
       /\ (pc \notin {"ensure", "indexes"} =>
             /\ last_build.call = calls
             /\ last_build.nth = 1
             /\ last_build.handle = graphiti)
       /\ (attempted # <<>> => last_build.ok)
       /\ \A i \in 1..Len(issued) : issued[i].handle = graphiti

\* the indexes had been built on the old handle; the call recreated the
\* handle, rebuilt the indexes on it and wrote episodes
C8_Witness ==
    /\ conn = "reconnected"
    /\ flag_before
    /\ pc = "returned"
    /\ last_build.call = calls
    /\ last_build.handle = graphiti
    /\ last_build.ok
    /\ Len(issued) >= 1
    /\ result.status = "success"

(* ------------------------------- C9 ------------------------------------ *)

LastError == errors[Len(errors)]

\* the write of the current artifact has ended as a recorded error
FailureRecorded(e) ==
    /\ ~InWrite
    /\ Len(errors) > 0
    /\ LastError.failed = NameOf(cur.label)
    /\ LastError.exc = e

\* C9 as stated: a write that is rate-limited every time is invoked at most
\* 3 times before its failure is recorded.
C9_AtMostThreeInvocations ==
    FailureRecorded("error code: 429 - rate limit reached") => invocations <= 3

\* C9 amended: at most 4 invocations (the first attempt and 3 retries) and
\* at most 3 sleeps per artifact; a rate-limit failure is recorded only after
\* the 4th invocation.
C9_AtMostFourInvocations ==
    /\ invocations <= 4
    /\ Len(sleeps) <= 3
    /\ FailureRecorded("error code: 429 - rate limit reached") => invocations = 4

C9_Witness ==
    /\ FailureRecorded("error code: 429 - rate limit reached")
    /\ invocations = 4
    /\ Len(sleeps) = 3

(* ------------------------------- C10 ----------------------------------- *)

\* C10: an invocation of the write is followed by another invocation or a
\* sleep only when it failed with a rate-limit error; any other failure is
\* recorded at once as the artifact's error, without a sleep, at whichever
\* attempt it occurs.
C10_OtherFailureNotRetried ==
    /\ [][pc = "retry" =>
            \/ episodes_committed' # episodes_committed
            \/ /\ pc' = "backoff"
               /\ last_exception' = "error code: 429 - rate limit reached"
               /\ errors' = errors
            \/ /\ pc' \notin {"retry", "backoff"}
               /\ Len(errors') = Len(errors) + 1
               /\ errors'[Len(errors')].failed = NameOf(cur.label)
               /\ sleeps' = sleeps
               /\ invocations' = invocations + 1]_vars
    /\ [](FailureRecorded("malformed payload") => Len(sleeps) = invocations - 1)

\* a malformed-payload failure at the third attempt, after two rate-limit
\* retries, recorded with no third sleep
C10_Witness ==
    /\ FailureRecorded("malformed payload")
    /\ invocations = 3
    /\ Len(sleeps) = 2

(* ------------------------------- C11 ----------------------------------- *)

\* number of error entries recorded for an artifact in this call
ErrorsFor(label) ==
    Cardinality({i \in 1..Len(errors) : errors[i].failed = NameOf(label)})

\* the artifact's write gave up with a rate-limit error: such an error ends
\* a write only once no retry is left
Exhausted(label) ==
    InSeq([label |-> label, exc |-> "error code: 429 - rate limit reached"],
          outcomes)

\* C11: a write that stays rate-limited until its retries are used up gives
\* exactly one error entry for its artifact and no episode; the call does
\* not raise, every later non-empty artifact is still attempted, and the
\* returned result lists that error.
C11_ExhaustedRetriesDoNotAbort ==
    \A k \in 1..Len(DeclaredOrder) :
       Exhausted(DeclaredOrder[k]) =>
          /\ ErrorsFor(DeclaredOrder[k]) = 1
          /\ ~Committed(DeclaredOrder[k])
          /\ pc # "raised"
          /\ pc \in {"returned", "cycle_done"} =>
                /\ \A j \in 1..Len(DeclaredOrder) :
                      (j > k /\ TextOf(DeclaredOrder[j]) # "")
                         => InSeq(DeclaredOrder[j], attempted)
                /\ InSeq([failed |-> NameOf(DeclaredOrder[k]),
                          exc |-> "error code: 429 - rate limit reached"],
                         result.errors)

\* the first worker's write used up its retries; the four later artifacts
\* were written, the refinement committed, and the call returned success
C11_Witness ==
    /\ pc = "returned"
    /\ Exhausted("Academic Research")
    /\ attempted = DeclaredOrder
    /\ Committed("Refinement Context")
    /\ Len(errors) = 1
    /\ result.status = "success"

(* ------------------------------- C12 ----------------------------------- *)

\* C12 as stated: a call entered with no handle attempts to establish a
\* connection, and proceeds to the index build when the attempt succeeds.
C12_AbsentHandleConnects ==
    [][(pc = "ensure" /\ graphiti = None) =>
          /\ conn' \in {"reconnected", "lost"}
          /\ conn' = "reconnected" => (graphiti' # None /\ pc' = "indexes")]_vars

\* C12 amended: a call entered with no handle makes no attempt to connect:
\* the handle stays absent, no handle is created, nothing is sent to the
\* backend and the call returns the unavailable result.
C12_AbsentHandleStaysAbsent ==
    /\ [][(pc = "ensure" /\ graphiti = None) =>
             /\ graphiti' = None
             /\ handles_created' = handles_created
             /\ indexes_built' = indexes_built
             /\ conn' = "absent"
             /\ pc' = "returned"
             /\ result' = [status |-> "error", error |-> "Neo4j unavailable",
                           episode_count |-> 0]]_vars
    /\ [](conn = "absent" =>
             /\ handle_before = None
             /\ graphiti = None
             /\ issued = <<>>
             /\ attempted = <<>>
             /\ last_build.call # calls
             /\ pc \in {"returned", "cycle_done"})

\* the second call finds the handle absent, the first one having lost it,
\* and returns unavailable although the backend had been reachable before
C12_Witness ==
    /\ pc = "returned"
    /\ conn = "absent"
    /\ calls = 2
    /\ handles_created >= 1
    /\ result.status = "error"

(* ------------------------------- C13 ----------------------------------- *)

\* the index build was invoked on the backend during the current call
BuiltThisCall == calls > 0 /\ last_build.call = calls

\* C13: a call entered with a handle sends nothing before the handle has been
\* checked. A handle that passed the check is the one used; after a failed
\* check the old handle is never used again:
\* every index build and write of the call goes to a handle created in this
\* call, and when none could be created nothing is sent.
C13_VerifiedBeforeUse ==
    /\ pc = "ensure" => (issued = <<>> /\ ~BuiltThisCall)
    /\ (issued # <<>> \/ BuiltThisCall) => conn \in {"alive", "reconnected"}
    /\ conn = "alive" => (handle_before # None /\ graphiti = handle_before)
    /\ conn = "reconnected" =>
          /\ handle_before # None
          /\ graphiti # None
          /\ graphiti # handle_before
          /\ graphiti = handles_created
          /\ \A i \in 1..Len(issued) : issued[i].handle = graphiti
          /\ BuiltThisCall => last_build.handle = graphiti
    /\ conn = "lost" =>
          /\ handle_before # None
          /\ graphiti = None
          /\ issued = <<>>
          /\ ~BuiltThisCall
    /\ conn \in {"alive", "reconnected"} =>
          \A i \in 1..Len(issued) : issued[i].handle = graphiti

\* the second call found its handle dead although the first call had used
\* it, and built the indexes and wrote on the handle it created
C13_Witness ==
    /\ calls = 2
    /\ conn = "reconnected"
    /\ flag_before
    /\ handle_before = 1
    /\ graphiti = 2
    /\ BuiltThisCall
    /\ last_build.handle = 2
    /\ Len(issued) >= 2

(* ------------------------------- C14 ----------------------------------- *)

\* C14: while the liveness check has failed in every call so far, a call in
\* which it failed does not raise and returns status error with
\* episode_count 0.
C14_TotalOutageReturnsError ==
    (outage /\ conn \in {"reconnected", "lost"}) =>
       /\ pc # "raised"
       /\ pc = "returned" => (result.status = "error" /\ result.episode_count = 0)

(* ------------------------------- C15 ----------------------------------- *)

\* the call went past the connection check with a usable handle
Healthy == conn \in {"alive", "reconnected"}

\* every write of the call that has ended so far ended with an episode
AllWritesSucceeded ==
    \A i \in 1..Len(outcomes) : outcomes[i].exc = "ok"

\* C15: a returned call on a healthy connection whose five artifacts are all
\* non-empty and whose writes all succeeded has status success,
\* episode_count 5, no errors, and the five names in the declared order.
C15_HappyPath ==
    (/\ pc = "returned"
     /\ Healthy
     /\ \A k \in 1..Len(DeclaredOrder) : TextOf(DeclaredOrder[k]) # ""
     /\ AllWritesSucceeded) =>
       /\ result.status = "success"
       /\ result.episode_count = 5
       /\ result.errors = <<>>
       /\ result.episodes = [k \in 1..5 |-> <<args.episode_name, DeclaredOrder[k]>>]

\* five writes were sent to a live handle and the call returned five episodes
C15_Witness ==
    /\ pc = "returned"
    /\ conn = "alive"
    /\ Len(issued) = 5
    /\ Len(outcomes) = 5
    /\ AllWritesSucceeded
    /\ result.episode_count = 5

(* ------------------------------- C16 ----------------------------------- *)

\* the write of worker w ended with the non-rate-limit error and every other
\* write of the call that has ended succeeded
OnlyWorkerFailed(w) ==
    /\ InSeq([label |-> DeclaredOrder[w], exc |-> "malformed payload"], outcomes)
    /\ \A i \in 1..Len(outcomes) :
          outcomes[i].label # DeclaredOrder[w] => outcomes[i].exc = "ok"

\* C16: a returned call with five non-empty artifacts in which exactly one
\* worker's write failed with a non-rate-limit error has status success,
\* episode_count 4, and exactly one error entry, naming that worker's episode.
C16_PartialFailure ==
    \A w \in 1..3 :
       (/\ pc = "returned"
        /\ Healthy
        /\ \A k \in 1..Len(DeclaredOrder) : TextOf(DeclaredOrder[k]) # ""
        /\ OnlyWorkerFailed(w)) =>
          /\ result.status = "success"
          /\ result.episode_count = 4
          /\ Len(result.errors) = 1
          /\ result.errors[1].failed = <<args.episode_name, DeclaredOrder[w]>>
          /\ result.errors[1].exc = "malformed payload"
          /\ ~InSeq(<<args.episode_name, DeclaredOrder[w]>>, result.episodes)

\* the industry worker's write failed at its only invocation and the call
\* returned the four other episodes
C16_Witness ==
    /\ pc = "returned"
    /\ Healthy
    /\ OnlyWorkerFailed(2)
    /\ Len(outcomes) = 5
    /\ Len(issued) = 5
    /\ result.episode_count = 4

(* ------------------------------- C17 ----------------------------------- *)

\* C17: a returned call whose refinement text is "" while the three worker
\* texts and the critique are non-empty and their writes succeeded committed
\* exactly 4 episodes; no write was started or sent for the refinement and
\* no error is recorded for it.
C17_EmptyRefinement ==
    (/\ pc = "returned"
     /\ Healthy
     /\ args.refinement_distilled = ""
     /\ \A k \in 1..4 : TextOf(DeclaredOrder[k]) # ""
     /\ AllWritesSucceeded) =>
       /\ result.episode_count = 4
       /\ Len(result.episodes) = 4
       /\ result.errors = <<>>
       /\ ~InSeq("Refinement Context", attempted)
       /\ \A i \in 1..Len(issued) : issued[i].label # "Refinement Context"
       /\ \A i \in 1..Len(errors) :
             errors[i].failed # <<args.episode_name, "Refinement Context">>

\* four writes succeeded, the critique's after one rate-limit retry, and the
\* call returned without touching the empty refinement
C17_Witness ==
    /\ pc = "returned"
    /\ Healthy
    /\ args.refinement_distilled = ""
    /\ Len(outcomes) = 4
    /\ AllWritesSucceeded
    /\ cur.label = "Critical Analysis"
    /\ invocations = 2
    /\ result.episode_count = 4

(* ------------------------------- C18 ----------------------------------- *)

\* writes of the call that were started and have neither returned nor
\* finally failed
InFlight == Len(attempted) - Len(outcomes)

\* C18: at every moment of a call at most one write is in flight, namely the
\* one being invoked, retried or slept for; writes end in the order they
\* were started, so each write starts only after the one before it ended,
\* and requests are sent in that order, one artifact after the other.
C18_OneWriteInFlight ==
    /\ InFlight \in {0, 1}
    /\ InFlight = 1 <=> pc \in {"retry", "backoff"}
    /\ \A i \in 1..Len(outcomes) : outcomes[i].label = attempted[i]
    /\ pc \in {"retry", "backoff"} => cur.label = attempted[Len(attempted)]
    /\ \A i \in 1..Len(issued) :
          \/ \E j \in 1..Len(outcomes) : outcomes[j].label = issued[i].label
          \/ /\ i = Len(issued)
             /\ pc \in {"retry", "backoff"}
             /\ issued[i].label = cur.label
    /\ \A i, j \in 1..Len(issued) :
          i < j => Rank(issued[i].label) < Rank(issued[j].label)

\* the critique's write is in its second backoff sleep; the three worker
\* writes have ended and the refinement's has not started
C18_Witness ==
    /\ pc = "backoff"
    /\ cur.label = "Critical Analysis"
    /\ Len(sleeps) = 1
    /\ attempt = 1
    /\ Len(outcomes) = 3
    /\ Len(attempted) = 4
    /\ args.refinement_distilled # ""

(* ------------------------------- C19 ----------------------------------- *)

\* the episode label under which a worker role's text is written
RoleLabel(key) ==
    CASE key = "academic_researcher"   -> "Academic Research"
      [] key = "industry_intelligence" -> "Industry Intelligence"
      [] key = "tool_analyzer"         -> "Tool Analysis"
      [] OTHER                         -> "none"

\* number of writes the call started for a worker role
WritesFor(key) ==
    Cardinality({i \in 1..Len(attempted) : attempted[i] = RoleLabel(key)})

\* number of writes the call started for worker roles
WorkerWrites ==
    Cardinality({i \in 1..Len(attempted) :
                    attempted[i] \notin {"Critical Analysis", "Refinement Context"}})

\* C19 as stated: whatever the role names and the size of worker_results,
\* a returned call has started exactly one write for every entry whose text
\* is non-empty.
C19_EveryRoleWritten ==
    (pc = "returned" /\ conn \in {"alive", "reconnected"}) =>
       /\ \A k \in DOMAIN args.worker_results :
             args.worker_results[k] # "" => WritesFor(k) = 1
       /\ WorkerWrites =
             Cardinality({k \in DOMAIN args.worker_results :
                             args.worker_results[k] # ""})

\* C19 amended: the worker roles are the three declared ones. A returned
\* call has started exactly one write for each of them whose text is
\* non-empty and none for the others; an entry under any other role name
\* gets no write.
C19_DeclaredRolesWritten ==
    (pc = "returned" /\ conn \in {"alive", "reconnected"}) =>
       /\ \A k \in {"academic_researcher", "industry_intelligence",
                     "tool_analyzer"} :
             WritesFor(k) = (IF WorkerText(k) # "" THEN 1 ELSE 0)
       /\ \A k \in DOMAIN args.worker_results :
             k \notin {"academic_researcher", "industry_intelligence",
                       "tool_analyzer"} => WritesFor(k) = 0
       /\ WorkerWrites =
             Cardinality({k \in {"academic_researcher", "industry_intelligence",
                                 "tool_analyzer"} : WorkerText(k) # ""})
       /\ \A i \in 1..Len(attempted) : InSeq(attempted[i], DeclaredOrder)

\* four roles were passed with text; the call returned after three worker
\* writes, none of them for the fourth role
C19_Witness ==
    /\ pc = "returned"
    /\ conn = "alive"
    /\ DOMAIN args.worker_results =
          {"academic_researcher", "industry_intelligence", "tool_analyzer",
           "synthesizer"}
    /\ \A k \in DOMAIN args.worker_results : args.worker_results[k] # ""
    /\ WorkerWrites = 3
    /\ Len(issued) = Len(attempted)

(* ------------------------------- C20 ----------------------------------- *)

\* the commit committed at least one episode and recorded at least one error
PartialSuccess == episodes_committed # <<>> /\ errors # <<>>

\* C20 as stated: after a partial success the result run_research_cycle
\* returns carries the committed names and the per-artifact errors.
C20_CycleResultNamesOutcomes ==
    (pc = "cycle_done" /\ PartialSuccess) =>
       /\ {"episodes", "errors"} \subseteq DOMAIN cycle_result
       /\ cycle_result.episodes = episodes_committed
       /\ cycle_result.errors = errors

\* C20 amended: after a partial success the result of the commit lists the
\* committed names and one error per failed artifact, by name; what
\* run_research_cycle returns from it is the status, the cycle's episode
\* name and the count, and nothing else.
C20_CommitNamesCycleCounts ==
    /\ (pc \in {"returned", "cycle_done"} /\ PartialSuccess) =>
          /\ result.status = "success"
          /\ result.episodes = episodes_committed
          /\ result.errors = errors
          /\ \A i \in 1..Len(attempted) :
                \/ InSeq(<<args.episode_name, attempted[i]>>, result.episodes)
                \/ \E j \in 1..Len(result.errors) :
                      result.errors[j].failed = <<args.episode_name, attempted[i]>>
    /\ pc = "cycle_done" =>
          /\ DOMAIN cycle_result = {"status", "episode_name", "episode_count"}
          /\ cycle_result.status = result.status
          /\ cycle_result.episode_name = args.episode_name
          /\ cycle_result.episode_count = result.episode_count

\* run_research_cycle returned success with count 3 after a cycle in which
\* two of the five writes failed
C20_Witness ==
    /\ pc = "cycle_done"
    /\ PartialSuccess
    /\ Len(result.errors) = 2
    /\ cycle_result.status = "success"
    /\ cycle_result.episode_count = 3

(* ------------------------------- C21 ----------------------------------- *)

\* number of writes of the call that ended with an episode
SucceededWrites ==
    Cardinality({i \in 1..Len(outcomes) : outcomes[i].exc = "ok"})

\* C21: a name is in the list of committed names only if that artifact's
\* write returned; an artifact whose write finally failed is not in the list,
\* and the episode_count returned counts the returned writes only.
C21_FailedWriteNoEpisode ==
    /\ \A i \in 1..Len(episodes_committed) :
          \E j \in 1..Len(outcomes) :
             /\ outcomes[j].exc = "ok"
             /\ episodes_committed[i] = <<args.episode_name, outcomes[j].label>>
    /\ \A j \in 1..Len(outcomes) :
          outcomes[j].exc # "ok" =>
             ~InSeq(<<args.episode_name, outcomes[j].label>>, episodes_committed)
    /\ Len(episodes_committed) = SucceededWrites
    /\ (pc \in {"returned", "cycle_done"} /\ conn # "absent") =>
          /\ result.episodes = episodes_committed
          /\ result.episode_count = SucceededWrites

\* two of the five writes failed, one after using up its retries, and the
\* call returned the three other names with episode_count 3
C21_Witness ==
    /\ pc = "returned"
    /\ Len(outcomes) = 5
    /\ SucceededWrites = 3
    /\ InSeq([label |-> "Tool Analysis",
              exc |-> "error code: 429 - rate limit reached"], outcomes)
    /\ InSeq([label |-> "Refinement Context", exc |-> "malformed payload"],
             outcomes)
    /\ result.episode_count = 3

(* ------------------------------- C30 ----------------------------------- *)

\* C30: every add_episode request of a call carries the group_id passed to
\* the call, in the request and in its provenance, and the name made of the
\* call's episode_name and the artifact's role; the names sent in one call
\* are pairwise distinct, and all its requests carry the same group_id and
\* the same reference time.
C30_WritesCarryGroupAndName ==
    /\ \A i \in 1..Len(issued) :
          /\ issued[i].group_id = args.group_id
          /\ issued[i].source_description.group_id = args.group_id
          /\ issued[i].source_description.episode = args.episode_name
          /\ issued[i].source_description.session = args.session_name
          /\ InSeq(issued[i].label, DeclaredOrder)
          /\ issued[i].name = <<args.episode_name, issued[i].label>>
          /\ issued[i].reference_time = timestamp
          /\ issued[i].source_description.timestamp = timestamp
    /\ \A i, j \in 1..Len(issued) :
          /\ i # j => issued[i].name # issued[j].name
          /\ issued[i].group_id = issued[j].group_id
          /\ issued[i].reference_time = issued[j].reference_time

\* the second call sent all five artifacts, with its own reference time
C30_Witness ==
    /\ calls = 2
    /\ Len(issued) = 5
    /\ timestamp = 2
    /\ issued[5].name = <<"Graph memory", "Refinement Context">>
    /\ issued[1].group_id = "helldiver_research"


(* ------------------------------- C22 ----------------------------------- *)

\* a change of session.state between two states of one session object
StateChange ==
    /\ state # "none"
    /\ state' # "none"
    /\ state' # state

C23_PersistedBeforeInput ==
    main_pc \in InputPcs => unsaved = "none"


(* ------------------------------- C24 ----------------------------------- *)

\* load() has just returned the record that save() wrote
RoundTrip == fresh_load /\ saved # NoSession

\* C24 as stated: the session load() returns equals the one save() wrote in
\* query, lifecycle state, count of completed cycles, pending refinement turns
\* (same order) and most recent findings.
C24_FullRoundTrip ==
    RoundTrip =>
        /\ session.query = saved.query
        /\ session.state = saved.state
        /\ session.episode_count = saved.episode_count
        /\ session.pending_refinement = saved.pending_refinement
        /\ session.research_findings = saved.research_findings

\* C24 amended: the session load() returns equals the one save() wrote in
\* query, original query, lifecycle state, count of completed cycles, episode
\* name, tasking context and pending refinement turns (same order); the most
\* recent findings and the narrative are not stored and come back empty.
C24_StoredFieldsRoundTrip ==
    RoundTrip =>
        /\ session.query = saved.query
        /\ session.original_query = saved.original_query
        /\ session.state = saved.state
        /\ session.episode_count = saved.episode_count
        /\ session.episode_name = saved.episode_name
        /\ session.tasking_context = saved.tasking_context
        /\ session.pending_refinement = saved.pending_refinement
        /\ DOMAIN session.research_findings = {}
        /\ session.narrative = ""

\* a session saved after a cycle with findings and two pending turns is loaded
C24_Witness ==
    /\ RoundTrip
    /\ Len(session.pending_refinement) = 2
    /\ DOMAIN saved.research_findings # {}
    /\ session.query # session.original_query

(* ------------------------------- C25 ----------------------------------- *)

\* C25: load() returns a session only for a record that is present, parses
\* and holds every field: no field of a returned session is a default.
C25_NoSilentDefaults ==
    fresh_load =>
        /\ session_file.content = "json"
        /\ {"query", "original_query", "state", "episode_count",
            "episode_name", "tasking_context", "pending_refinement"}
              \subseteq DOMAIN session_file.data

(* ------------------------------- C26 ----------------------------------- *)

\* C26: once a cycle whose conversation has no turns has distilled, its
\* refinement text is the fixed placeholder, never the empty string; that is
\* the text the commit is given, and a commit that reached its writes wrote
\* the refinement episode or recorded the failure of that write.
C26_EmptyConversationPlaceholder ==
    /\ (cycle_pc \in {"files", "commit", "update"}
          /\ Len(conversation_for_distillation) = 0) =>
            /\ refinement_distilled =
                 "(No refinement conversation - research triggered immediately)"
            /\ refinement_distilled # ""
    /\ (cycle_pc = "update" /\ Len(conversation_for_distillation) = 0) =>
            /\ commit_call.refinement_distilled =
                 "(No refinement conversation - research triggered immediately)"
            /\ "episodes" \in DOMAIN commit_result =>
                  \/ \E i \in 1..Len(commit_result.episodes) :
                        commit_result.episodes[i] =
                            <<commit_call.episode_name, "Refinement Context">>
                  \/ \E i \in 1..Len(commit_result.errors) :
                        commit_result.errors[i].failed =
                            <<commit_call.episode_name, "Refinement Context">>

\* a first cycle whose tasking conversation holds no user message: the dict
\* is not empty, the converted conversation is
C26_Witness ==
    /\ cycle_pc = "update"
    /\ session.episode_count = 0
    /\ DOMAIN session.tasking_context # {}
    /\ Len(conversation_for_distillation) = 0

(* ------------------------------- C27 ----------------------------------- *)

\* C27: distill_conversation has not been called while no cycle runs, whatever
\* turns were recorded, nor before the research of a cycle is over; from the
\* writing of the refinement files on it has been called exactly once in this
\* cycle.
C27_DistilledOncePerCycle ==
    /\ cycle_pc \in {"idle", "poll", "extract", "critic", "distill",
                     "research_raised"} => distill_calls = 0
    /\ cycle_pc \in {"files", "commit", "update", "cycle_raised"} =>
          distill_calls = 1

\* a later cycle reaches its commit with two pending turns distilled
C27_Witness ==
    /\ cycle_pc = "update"
    /\ session.episode_count = 1
    /\ Len(session.pending_refinement) = 2
    /\ Len(conversation_for_distillation) = 2
    /\ distill_calls = 1

(* ------------------------------- C28 ----------------------------------- *)

\* episodes and error entries of the cycle's commit for one label
CycleEntries(label) ==
    IF "episodes" \in DOMAIN commit_result
    THEN {i \in 1..Len(commit_result.episodes) :
             commit_result.episodes[i][2] = label}
           \cup {i \in 1..Len(commit_result.errors) :
             commit_result.errors[i].failed[2] = label}
    ELSE {}

\* C28: no generation failure keeps the cycle from completing; and when the
\* commit has returned, a worker whose generation errored or gave no text,
\* and a reviewer that gave no text, have neither an episode nor an error
\* entry.
C28_GenerationFailureIsNoArtifact ==
    /\ cycle_pc # "research_raised"
    /\ cycle_pc = "update" =>
          /\ \A k \in DOMAIN generated :
                generated[k] \in {"errored", ""} =>
                    CycleEntries(RoleLabel(k)) = {}
          /\ critical_analysis = "" => CycleEntries("Critical Analysis") = {}

(* ------------------------------- C29 ----------------------------------- *)

\* C29: while execute_research polls the batch is in progress; results are
\* extracted and the reviewer is run only with the batch ended; and with the
\* batch ended the call is not left without returning.
C29_WaitsUntilEnded ==
    /\ cycle_pc = "poll" => batch_status = "in_progress"
    /\ cycle_pc \in {"extract", "critic"} => batch_status = "ended"
    /\ DOMAIN generated # {} => batch_status = "ended"
    /\ batch_status = "ended" => cycle_pc # "research_raised"


(* ------------------------------- C31 ----------------------------------- *)

\* C31: the k-th sleep of an artifact's write lasts 60 * 2^(k-1) seconds;
\* the process sleeps only after an invocation that failed with a rate-limit
\* error and every sleep is followed by the next invocation: while the write
\* waits to invoke, each earlier invocation was followed by one sleep, and
\* once the write has ended the last invocation was followed by none.
C31_ExponentialBackoff ==
    /\ \A k \in 1..Len(sleeps) : sleeps[k] = 60 * (2 ^ (k - 1))
    /\ pc = "backoff" =>
          /\ last_exception = "error code: 429 - rate limit reached"
          /\ Len(sleeps) = invocations - 1
    /\ pc = "retry" => Len(sleeps) = invocations
    /\ (~InWrite /\ invocations > 0) => Len(sleeps) = invocations - 1

\* a write that slept 60, 120 and 240 seconds and failed a fourth time
C31_Witness ==
    /\ ~InWrite
    /\ invocations = 4
    /\ sleeps = <<60, 120, 240>>
    /\ Len(errors) > 0


(* ------------------------------- C34 ----------------------------------- *)

\* the non-empty artifacts of the call among the three declared workers, the
\* critique and the refinement, by label
NonEmptyLabels ==
    {RoleLabel(k) : k \in {r \in {"academic_researcher", "industry_intelligence",
                                 "tool_analyzer"} :
                              r \in DOMAIN args.worker_results
                                /\ args.worker_results[r] # ""}}
      \cup (IF args.critical_analysis # "" THEN {"Critical Analysis"} ELSE {})
      \cup (IF args.refinement_distilled # "" THEN {"Refinement Context"} ELSE {})

\* entries of the returned lists for one label
EpisodesFor(label) ==
    Cardinality({i \in 1..Len(result.episodes) :
                    result.episodes[i] = <<args.episode_name, label>>})

ResultErrorsFor(label) ==
    Cardinality({i \in 1..Len(result.errors) :
                    result.errors[i].failed = <<args.episode_name, label>>})

\* C34: when a call that reached the write phase has returned, every
\* non-empty artifact has exactly one entry, in the committed names or in the
\* errors, and the two lists hold nothing else: their lengths add up to the
\* number of non-empty artifacts.
C34_EveryArtifactAccounted ==
    (pc = "returned" /\ conn # "absent") =>
        /\ \A l \in NonEmptyLabels : EpisodesFor(l) + ResultErrorsFor(l) = 1
        /\ Len(result.episodes) + Len(result.errors) = Cardinality(NonEmptyLabels)

\* four non-empty artifacts, three committed and one failed
C34_Witness ==
    /\ pc = "returned"
    /\ conn # "absent"
    /\ Cardinality(NonEmptyLabels) = 4
    /\ Len(result.episodes) = 3
    /\ Len(result.errors) = 1


(* ------------------------------- C35 ----------------------------------- *)

\* C35: every add_episode request of a call was sent on a handle whose latest
\* index build succeeded, and no build was made on another handle since: a
\* handle created by a reconnection is built before it is written to, and
\* after a failed reconnection nothing is sent at all.
C35_BuildPrecedesWrites ==
    /\ \A i \in 1..Len(issued) :
          /\ issued[i].handle # 0
          /\ last_build.handle = issued[i].handle
          /\ last_build.ok
    /\ (pc \in {"retry", "backoff"} /\ graphiti # 0) =>
          /\ indexes_built
          /\ last_build.handle = graphiti
          /\ last_build.ok

\* a write is sent on the second handle, created by a reconnection in a call
\* that found the flag set for the first handle
C35_Witness ==
    /\ Len(issued) > 0
    /\ issued[1].handle = 2
    /\ conn = "reconnected"
    /\ flag_before


(* ------------------------------- C36 ----------------------------------- *)

\* a commit call was entered while the handle was None
EnteredAbsent == calls > 0 /\ handle_before = 0

\* C36: no step of any operation replaces a None handle or has the backend
\* construct one; a call entered with the handle None builds no index, starts
\* and sends no write, and once it is over it has returned status error,
\* "Neo4j unavailable", episode_count 0, without raising.
C36_AbsentIsAbsorbing ==
    /\ [][graphiti = 0 =>
             (graphiti' = 0 /\ handles_created' = handles_created)]_vars
    /\ [](EnteredAbsent =>
             /\ graphiti = 0
             /\ last_build.call # calls
             /\ attempted = <<>>
             /\ issued = <<>>
             /\ invocations = 0
             /\ raised = "none"
             /\ pc \in {"ensure", "returned", "cycle_done"}
             /\ pc \in {"returned", "cycle_done"} =>
                   result = [status |-> "error", error |-> "Neo4j unavailable",
                             episode_count |-> 0])

\* the handle was lost by a failed reconnection in the first call; the second
\* call has returned the unavailable result
C36_Witness ==
    /\ EnteredAbsent
    /\ calls = 2
    /\ handles_created = 1
    /\ pc = "cycle_done"
    /\ result.status = "error"


(* ------------------------------- C39 ----------------------------------- *)

\* C39: the wrapped call of one artifact's write is invoked at most 4 times
\* (max_retries + 1).  An invocation that returns ends the write: the
\* artifact's name is committed and no further invocation or sleep follows.
\* A write that ends as a failure is recorded with the exception of the
\* invocation made last.  No name is committed twice in one call.
C39_RetryFinishes ==
    /\ [](invocations <= 4)
    /\ [][(pc = "retry" /\ thrown' = "none") =>
             /\ pc' \notin {"retry", "backoff"}
             /\ episodes_committed' =
                   Append(episodes_committed, <<args.episode_name, cur.label>>)
             /\ errors' = errors]_vars
    /\ [][(pc \in {"retry", "backoff"} /\ Len(errors') > Len(errors)) =>
             /\ thrown' # "none"
             /\ errors'[Len(errors')].exc = thrown']_vars
    /\ [](\A i, j \in 1..Len(episodes_committed) :
             episodes_committed[i] = episodes_committed[j] => i = j)

\* a write that succeeded at its third invocation, after two sleeps
C39_Witness ==
    /\ ~InWrite
    /\ invocations = 3
    /\ thrown = "none"
    /\ Len(sleeps) = 2
    /\ Len(episodes_committed) > 0


(* ------------------------------- C32 ----------------------------------- *)

FilePending ==
    IF session_file.content = "json"
    THEN DictGet(session_file.data, "pending_refinement", <<>>)
    ELSE <<>>

StepsDone ==
    [p \in {"idle", "poll", "extract", "critic", "distill", "files", "commit",
            "update"} |->
        CASE p = "critic" -> 1
          [] p = "distill" -> 2
          [] p = "files" -> 3
          [] p = "commit" -> 4
          [] p = "update" -> 5
          [] OTHER -> 0]

C37_UpdateWhateverCommitReturned ==
    /\ [](cycle_pc = "update" => commit_result.status \in {"success", "error"})
    /\ [][cycle_pc = "update" =>
             /\ session'.episode_count = session.episode_count + 1
             /\ session'.pending_refinement = <<>>
             /\ session'.state = "REFINEMENT"
             /\ saved' = session'
             /\ session_file'.content = "json"
             /\ session_file'.data.episode_count = session.episode_count + 1
             /\ session_file'.data.pending_refinement = <<>>
             /\ session_file'.data.state = "REFINEMENT"
             /\ cycle_return'.status = commit_result.status]_vars

\* the second cycle of a session has returned status error with nothing
\* committed, and the session counts two cycles
C37_Witness ==
    /\ cycle_return.status = "error"
    /\ cycle_return.episode_count = 0
    /\ session # NoSession
    /\ session.episode_count = 2
    /\ session.pending_refinement = <<>>
    /\ session.state = "REFINEMENT"
    /\ session_file.content = "json"
    /\ session_file.data.episode_count = 2


(* ------------------------------- C38 ----------------------------------- *)

\* the messages of the session's tasking conversation
TaskingHistory ==
    IF "conversation_history" \in DOMAIN session.tasking_context
    THEN session.tasking_context.conversation_history
    ELSE <<>>

C40_OriginalQueryIsStable ==
    /\ [](session # NoSession =>
             session.original_query = "Brain memory for LLMs")
    /\ []((session_file.content = "json"
               /\ "original_query" \in DOMAIN session_file.data) =>
             session_file.data.original_query = "Brain memory for LLMs")
    /\ [](cycle_pc = "update" =>
             commit_call.session_name = "Brain memory for LLMs")
    /\ [][(session # NoSession /\ session' # NoSession) =>
             session'.original_query = session.original_query]_vars
    /\ [][cycle_pc = "update" =>
             /\ session'.query = commit_call.episode_name
             /\ session'.episode_name = commit_call.episode_name
             /\ session'.query # session'.original_query]_vars

\* a session that was saved after its first cycle and loaded again commits
\* its second cycle: its query is that of the first cycle, the session name
\* of the commit is the original query
C40_Witness ==
    /\ cycle_pc = "update"
    /\ fresh_load
    /\ session.episode_count = 1
    /\ session.query = "Graph memory"
    /\ session.episode_name = "Graph memory"
    /\ commit_call.session_name = "Brain memory for LLMs"

====
